---- MODULE Spec2Model ----
(***************************************************************************)
(* Model of the topology compiler of src/src/config/compiler.rs:           *)
(* compile(), expand_macros(), expand_globs(), expand_globs_inner().       *)
(* Strings are sequences of one-character strings, so that glob matching   *)
(* and the rendering of output ids are computed, not assumed.              *)
(***************************************************************************)
EXTENDS Integers, Sequences, FiniteSets, TLC

\* ------------------------------------------------------------------ bounds

\* Longest raw input list of a generated transform or sink.
MaxInputs == 2
\* Most errors one opaque validator reports in one call.
MaxErrs == 2

\* ----------------------------------------------------------- sequence tools

Range(s) == {s[i] : i \in 1..Len(s)}

Last(s) == s[Len(s)]

Front(s) == SubSeq(s, 1, Len(s) - 1)

RECURSIVE Flatten(_)
Flatten(ss) == IF ss = <<>> THEN <<>> ELSE Head(ss) \o Flatten(Tail(ss))

Contains(s, x) == \E i \in 1..Len(s) : s[i] = x

\* The duplicate-free sequences over S of length 1..n.
RECURSIVE DistinctSeqs(_, _)
DistinctSeqs(S, n) ==
    IF n = 0 THEN {<<>>}
    ELSE LET shorter == DistinctSeqs(S, n - 1)
         IN  shorter \cup
             {Append(p[1], p[2]) :
                 p \in {q \in shorter \X S : Len(q[1]) = n - 1 /\ ~Contains(q[1], q[2])}}

\* ------------------------------------------------- identifiers and references

NoPort == <<>>

SomePort(p) == <<p>>

ComponentKey(s) == [id |-> s]

\* ComponentKey::join, used by an expansion to name a generated transform.
KeyJoin(key, name) == [id |-> key.id \o <<".">> \o name]

OutputId(c, port) == [component |-> c, port |-> port]

\* OutputId's Display: `component` or `component.port`.
OutputIdToString(o) ==
    IF o.port = NoPort THEN o.component.id
    ELSE o.component.id \o <<".">> \o o.port[1]

\* Inputs<T>::extend of one element: an ordered sequence with duplicate
\* suppression on insertion, the first occurrence keeping its position.
InputsExtend(inputs, x) == IF Contains(inputs, x) THEN inputs ELSE Append(inputs, x)

\* IndexSet::insert, as collect::<IndexSet<String>>() applies it.
IndexSetInsert(set, x) == IF Contains(set, x) THEN set ELSE Append(set, x)

RECURSIVE CollectIndexSet(_)
CollectIndexSet(items) ==
    IF items = <<>> THEN <<>>
    ELSE IndexSetInsert(CollectIndexSet(Front(items)), Last(items))

\* ------------------------------------------------------------ glob patterns

\* The length of the run of `*` starting at position i of pattern p.
RECURSIVE StarRun(_, _)
StarRun(p, i) == IF i > Len(p) \/ p[i] # "*" THEN 0 ELSE 1 + StarRun(p, i + 1)

\* glob::Pattern::new(raw_input).is_ok(): a run of three or more `*` is an
\* error, and `**` must be a whole path component (no separator occurs in a
\* component id, so only the pattern `**` itself qualifies).
PatternNewOk(p) ==
    \A i \in 1..Len(p) :
        (p[i] = "*" /\ (i = 1 \/ p[i - 1] # "*")) =>
            \/ StarRun(p, i) = 1
            \/ StarRun(p, i) = 2 /\ i = 1 /\ Len(p) = 2

\* glob::Pattern::matches with the default options: `*` (and `**`) match any
\* sequence of characters, `?` any one character, others themselves.
RECURSIVE PatternMatches(_, _)
PatternMatches(p, s) ==
    IF p = <<>> THEN s = <<>>
    ELSE IF Head(p) = "*"
         THEN PatternMatches(Tail(p), s) \/ (s # <<>> /\ PatternMatches(p, Tail(s)))
         ELSE /\ s # <<>>
              /\ (Head(p) = "?" \/ Head(p) = Head(s))
              /\ PatternMatches(Tail(p), Tail(s))

\* A matcher that treats every raw input as a compiled pattern.
InputMatcherAlwaysPattern(raw_input, candidate) == PatternMatches(raw_input, candidate)

\* InputMatcher::matches, the matcher being Pattern(raw_input) when the raw
\* input compiles as a glob pattern and String(raw_input) otherwise.
InputMatcherMatches(raw_input, candidate) ==
    IF PatternNewOk(raw_input) THEN PatternMatches(raw_input, candidate)
    ELSE raw_input = candidate

\* ------------------------------------------------------------ expand_globs

\* The outputs of one source or transform as output ids rendered to strings.
ComponentOutputs(c) ==
    [j \in 1..Len(c.outputs) |-> OutputIdToString(OutputId(c.key, c.outputs[j].port))]

\* A candidate set that also lists the ids of the sinks.
CandidatesWithSinks(config) ==
    CollectIndexSet(
        Flatten([i \in 1..Len(config.sources) |-> ComponentOutputs(config.sources[i])])
        \o Flatten([i \in 1..Len(config.transforms) |->
                        ComponentOutputs(config.transforms[i])])
        \o [i \in 1..Len(config.sinks) |-> config.sinks[i].key.id])

\* The candidate set of expand_globs: the outputs of every source, then of
\* every transform, collected into an IndexSet<String>.
Candidates(config) ==
    CollectIndexSet(
        Flatten([i \in 1..Len(config.sources) |-> ComponentOutputs(config.sources[i])])
        \o Flatten([i \in 1..Len(config.transforms) |->
                        ComponentOutputs(config.transforms[i])]))

\* The `input != id` conjunct of the test that admits a candidate.
NotSelf(input, id) == input # id

\* A candidate loop that walks the candidates from the last to the first.
RECURSIVE MatchCandidatesReversed(_, _, _, _, _)
MatchCandidatesReversed(inputs, raw_input, id, candidates, k) ==
    IF k > Len(candidates) THEN inputs
    ELSE LET input == candidates[Len(candidates) + 1 - k]
         IN  MatchCandidatesReversed(
                 IF InputMatcherMatches(raw_input, input) /\ input # id
                 THEN IF Contains(inputs, input) THEN inputs ELSE Append(inputs, input)
                 ELSE inputs,
                 raw_input, id, candidates, k + 1)

\* A candidate loop that pushes every match, already listed or not.
RECURSIVE MatchCandidatesAppending(_, _, _, _, _)
MatchCandidatesAppending(inputs, raw_input, id, candidates, k) ==
    IF k > Len(candidates) THEN inputs
    ELSE LET input == candidates[k]
         IN  MatchCandidatesAppending(
                 IF InputMatcherMatches(raw_input, input) /\ input # id
                 THEN Append(inputs, input)
                 ELSE inputs,
                 raw_input, id, candidates, k + 1)

\* The candidate loop of expand_globs_inner for one raw input, from candidate k on.
RECURSIVE MatchCandidates(_, _, _, _, _)
MatchCandidates(inputs, raw_input, id, candidates, k) ==
    IF k > Len(candidates) THEN inputs
    ELSE LET input == candidates[k]
         IN  MatchCandidates(
                 IF InputMatcherMatches(raw_input, input) /\ NotSelf(input, id)
                 THEN InputsExtend(inputs, input)
                 ELSE inputs,
                 raw_input, id, candidates, k + 1)

\* The value of `matched` after the candidate loop.
Matched(raw_input, id, candidates) ==
    \E k \in 1..Len(candidates) :
        InputMatcherMatches(raw_input, candidates[k]) /\ NotSelf(candidates[k], id)

\* An expand_globs_inner that drops a raw input nothing matched.
DropUnmatched(inputs, raw_input) == inputs

\* `if !matched { inputs.extend(Some(raw_input)) }`
KeepUnmatched(inputs, raw_input) == InputsExtend(inputs, raw_input)

\* One iteration of `for raw_input in raw_inputs`.
ExpandRawInput(inputs, raw_input, id, candidates) ==
    LET after == MatchCandidates(inputs, raw_input, id, candidates, 1)
    IN  IF ~Matched(raw_input, id, candidates)
        THEN KeepUnmatched(after, raw_input)
        ELSE after

\* expand_globs_inner: the new value of `inputs`, which std::mem::take left
\* empty, after all raw inputs were processed in order.
RECURSIVE expand_globs_inner(_, _, _)
expand_globs_inner(raw_inputs, id, candidates) ==
    IF raw_inputs = <<>> THEN <<>>
    ELSE ExpandRawInput(expand_globs_inner(Front(raw_inputs), id, candidates),
                        Last(raw_inputs), id, candidates)

\* An expand_globs_inner that emits no event.
NoGlobWarnEvents(raw_inputs, id) == <<>>

\* The warn! events expand_globs_inner emits: one per raw input that does
\* not compile as a pattern, carrying the component id and the pattern error.
RECURSIVE GlobWarnEvents(_, _)
GlobWarnEvents(raw_inputs, id) ==
    IF raw_inputs = <<>> THEN <<>>
    ELSE (IF PatternNewOk(Head(raw_inputs)) THEN <<>>
          ELSE <<[message |-> "Invalid glob pattern for input.",
                  component_id |-> id, error |-> "PatternError"]>>)
         \o GlobWarnEvents(Tail(raw_inputs), id)

\* An expand_globs that also resets the acknowledgement setting of the sinks.
expand_globs_touching_sinks(config) ==
    LET candidates == Candidates(config)
    IN  [config EXCEPT
            !.transforms = [i \in 1..Len(config.transforms) |->
                [config.transforms[i] EXCEPT
                    !.inputs = expand_globs_inner(@, config.transforms[i].key.id,
                                                  candidates)]],
            !.sinks = [i \in 1..Len(config.sinks) |->
                [config.sinks[i] EXCEPT
                    !.inputs = expand_globs_inner(@, config.sinks[i].key.id,
                                                  candidates),
                    !.acks = FALSE]]]

\* expand_globs: every transform, then every sink, gets its inputs rewritten
\* against the candidates computed before any rewrite.
expand_globs(config) ==
    LET candidates == Candidates(config)
    IN  [config EXCEPT
            !.transforms = [i \in 1..Len(config.transforms) |->
                [config.transforms[i] EXCEPT
                    !.inputs = expand_globs_inner(@, config.transforms[i].key.id,
                                                  candidates)]],
            !.sinks = [i \in 1..Len(config.sinks) |->
                [config.sinks[i] EXCEPT
                    !.inputs = expand_globs_inner(@, config.sinks[i].key.id,
                                                  candidates)]]]

ExpandGlobsLog(config) ==
    Flatten([i \in 1..Len(config.transforms) |->
                GlobWarnEvents(config.transforms[i].inputs, config.transforms[i].key.id)])
    \o Flatten([i \in 1..Len(config.sinks) |->
                GlobWarnEvents(config.sinks[i].inputs, config.sinks[i].key.id)])

\* ------------------------------------------------------------------ errors

\* An error string, kept structured: the phase that reported it, its number
\* within the phase, the component it names and the references it names.
Error(phase, n, id, ref) == [phase |-> phase, n |-> n, id |-> id, ref |-> ref]

\* What an opaque validator (check_names, check_shape, check_resources,
\* check_outputs) may return: Ok(()), shown as <<>>, or Err of 1..MaxErrs errors.
ValidatorResults(phase) ==
    {[i \in 1..n |-> Error(phase, i, <<>>, <<>>)] : n \in 0..MaxErrs}

\* ------------------------------------------------------------ expand_macros

\* IndexMap::insert on a sequence of entries with a `key` field.
MapInsert(m, entry) ==
    IF \E i \in 1..Len(m) : m[i].key = entry.key
    THEN [i \in 1..Len(m) |-> IF m[i].key = entry.key THEN entry ELSE m[i]]
    ELSE Append(m, entry)

RECURSIVE MapInsertAll(_, _)
MapInsertAll(m, entries) ==
    IF entries = <<>> THEN m
    ELSE MapInsertAll(MapInsert(m, Head(entries)), Tail(entries))

NoExpansion == [kind |-> "none", names |-> <<>>]

FailingExpansion == [kind |-> "fail", names |-> <<>>]

ParallelExpansion(names) == [kind |-> "parallel", names |-> names]

\* The transforms a self-expanding transform generates: one per name, keyed
\* key.name, each with the inputs of the original.
ExpandedChildren(key, transform) ==
    [j \in 1..Len(transform.expand.names) |->
        [transform EXCEPT !.key = KeyJoin(key, transform.expand.names[j]),
                          !.expand = NoExpansion]]

\* TransformOuter::expand(key, parent_types, expanded_transforms, expansions):
\* a transform without expansion capability is inserted unchanged, a
\* self-expanding one inserts its replacements and records them, a failing one
\* returns its error.
TransformExpand(key, transform, expanded_transforms, expansions) ==
    CASE transform.expand.kind = "none" ->
            [error |-> <<>>,
             expanded_transforms |-> MapInsert(expanded_transforms, transform),
             expansions |-> expansions]
      [] transform.expand.kind = "fail" ->
            [error |-> <<Error("expand_macros", 1, key.id, <<>>)>>,
             expanded_transforms |-> expanded_transforms,
             expansions |-> expansions]
      [] transform.expand.kind = "parallel" ->
            LET children == ExpandedChildren(key, transform)
            IN  [error |-> <<>>,
                 expanded_transforms |-> MapInsertAll(expanded_transforms, children),
                 expansions |-> MapInsert(expansions,
                     [key |-> key,
                      values |-> [j \in 1..Len(children) |-> children[j].key]])]

\* A to_string_expansions that lists every replacement list backwards.
to_string_expansions_reversed(input) ==
    [i \in 1..Len(input) |->
        [key |-> input[i].key.id,
         values |-> [j \in 1..Len(input[i].values) |->
                        input[i].values[Len(input[i].values) + 1 - j].id]]]

\* to_string_expansions: keys and values rendered to strings, order kept.
to_string_expansions(input) ==
    [i \in 1..Len(input) |->
        [key |-> input[i].key.id,
         values |-> [j \in 1..Len(input[i].values) |-> input[i].values[j].id]]]

\* -------------------------------------------------------------------- graph

\* Every output id a source or transform emits, with its kind.
AvailableOutputs(sources, transforms) ==
    Flatten([i \in 1..Len(sources) |->
                [j \in 1..Len(sources[i].outputs) |->
                    [id |-> OutputId(sources[i].key, sources[i].outputs[j].port),
                     kind |-> sources[i].outputs[j].kind]]])
    \o Flatten([i \in 1..Len(transforms) |->
                [j \in 1..Len(transforms[i].outputs) |->
                    [id |-> OutputId(transforms[i].key, transforms[i].outputs[j].port),
                     kind |-> transforms[i].outputs[j].kind]]])

IsAvailable(from, available) ==
    \E i \in 1..Len(available) : OutputIdToString(available[i].id) = from

LookupOutput(from, available) ==
    available[CHOOSE i \in 1..Len(available) :
                  /\ OutputIdToString(available[i].id) = from
                  /\ \A j \in 1..(i - 1) : OutputIdToString(available[j].id) # from].id

IsExpanded(from, str_expansions) ==
    \E i \in 1..Len(str_expansions) : str_expansions[i].key = from

ExpansionOf(from, str_expansions) ==
    str_expansions[CHOOSE i \in 1..Len(str_expansions) : str_expansions[i].key = from].values

\* The edges and errors one literal reference `from` of consumer `to` yields.
ResolveLiteral(from, to, role, available) ==
    IF IsAvailable(from, available)
    THEN [edges |-> <<[from |-> LookupOutput(from, available), to |-> to]>>,
          errors |-> <<>>]
    ELSE [edges |-> <<>>, errors |-> <<Error("Graph::new", 1, to.id, <<from>>)>>]

\* Graph::add_input: a reference naming a key of the expansion map fans out to
\* the default output of every replacement, in order; any other reference
\* must name an available output.
AddInput(from, to, role, available, str_expansions) ==
    IF IsExpanded(from, str_expansions)
    THEN LET values == ExpansionOf(from, str_expansions)
             each == [j \in 1..Len(values) |->
                         ResolveLiteral(values[j], to, role, available)]
         IN  [edges |-> Flatten([j \in 1..Len(each) |-> each[j].edges]),
              errors |-> Flatten([j \in 1..Len(each) |-> each[j].errors])]
    ELSE ResolveLiteral(from, to, role, available)

\* The edges and errors of all inputs of one transform or sink.
ConsumerInputs(c, role, available, str_expansions) ==
    LET each == [j \in 1..Len(c.inputs) |->
                    AddInput(c.inputs[j], c.key, role, available, str_expansions)]
    IN  [edges |-> Flatten([j \in 1..Len(each) |-> each[j].edges]),
         errors |-> Flatten([j \in 1..Len(each) |-> each[j].errors])]

\* Graph::new: one node per source, transform and sink; the edges of every
\* transform's, then every sink's inputs; Err of all unknown-input errors if
\* any input fails to resolve.
GraphNew(sources, transforms, sinks, str_expansions) ==
    LET available == AvailableOutputs(sources, transforms)
        ts == [i \in 1..Len(transforms) |->
                  ConsumerInputs(transforms[i], "transform", available, str_expansions)]
        ks == [i \in 1..Len(sinks) |->
                  ConsumerInputs(sinks[i], "sink", available, str_expansions)]
    IN  [errors |-> Flatten([i \in 1..Len(ts) |-> ts[i].errors])
                    \o Flatten([i \in 1..Len(ks) |-> ks[i].errors]),
         graph |->
            [nodes |-> [i \in 1..Len(sources) |-> sources[i].key]
                       \o [i \in 1..Len(transforms) |-> transforms[i].key]
                       \o [i \in 1..Len(sinks) |-> sinks[i].key],
             accepts |-> [i \in 1..Len(transforms) |->
                             [key |-> transforms[i].key, kinds |-> transforms[i].accepts]]
                         \o [i \in 1..Len(sinks) |->
                             [key |-> sinks[i].key, kinds |-> sinks[i].accepts]],
             outputs |-> available,
             edges |-> Flatten([i \in 1..Len(ts) |-> ts[i].edges])
                       \o Flatten([i \in 1..Len(ks) |-> ks[i].edges])]]

NoGraph == [nodes |-> <<>>, accepts |-> <<>>, outputs |-> <<>>, edges |-> <<>>]

\* Graph::inputs_for: the producers of the edges into `key`, in edge order.
RECURSIVE CollectInputs(_)
CollectInputs(items) ==
    IF items = <<>> THEN <<>>
    ELSE InputsExtend(CollectInputs(Front(items)), Last(items))

inputs_for(graph, key) ==
    CollectInputs(
        LET into == SelectSeq(graph.edges, LAMBDA e : e.to = key)
        IN  [i \in 1..Len(into) |-> into[i].from])

KindOf(graph, output_id) ==
    graph.outputs[CHOOSE i \in 1..Len(graph.outputs) : graph.outputs[i].id = output_id].kind

AcceptedKinds(graph, key) ==
    graph.accepts[CHOOSE i \in 1..Len(graph.accepts) : graph.accepts[i].key = key].kinds

\* Graph::typecheck: one error per edge whose producer's kind the consumer
\* does not accept.
typecheck(graph) ==
    LET bad == SelectSeq(graph.edges,
                   LAMBDA e : KindOf(graph, e.from) \notin AcceptedKinds(graph, e.to))
    IN  [i \in 1..Len(bad) |->
            Error("typecheck", i, bad[i].to.id, <<OutputIdToString(bad[i].from)>>)]

\* The components reachable from `set` along 1..k edges.
RECURSIVE Reach(_, _, _)
Reach(graph, set, k) ==
    LET next == {graph.edges[i].to : i \in {j \in 1..Len(graph.edges) :
                                               graph.edges[j].from.component \in set}}
    IN  IF k = 0 THEN {} ELSE next \cup Reach(graph, next, k - 1)

OnCycle(graph, key) == key \in Reach(graph, {key}, Len(graph.nodes))

\* Graph::check_for_cycles: Err of a single error listing the components of a
\* cycle when the edges contain one.
check_for_cycles(graph) ==
    LET cyclic == SelectSeq(graph.nodes, LAMBDA n : OnCycle(graph, n))
        first == cyclic[1]
        cycle == SelectSeq(cyclic,
                     LAMBDA n : /\ n \in Reach(graph, {first}, Len(graph.nodes))
                                /\ first \in Reach(graph, {n}, Len(graph.nodes)))
    IN  IF cyclic = <<>> THEN <<>>
        ELSE <<Error("check_for_cycles", 1, first.id,
                     [i \in 1..Len(cycle) |-> cycle[i].id])>>

\* UnitTest::resolve_outputs: Err of one error per reference of the test that
\* names neither an available output nor an expanded component.
resolve_outputs(test, graph, str_expansions) ==
    LET bad == SelectSeq(test.refs,
                   LAMBDA r : /\ ~IsAvailable(r, graph.outputs)
                              /\ ~IsExpanded(r, str_expansions))
    IN  [i \in 1..Len(bad) |-> Error("resolve_outputs", i, test.name, <<bad[i]>>)]

\* -------------------------------------------------------- acknowledgements

\* The transforms and sinks of `cfg` fed, through 1..k resolved inputs, by a
\* component of `set`.
RECURSIVE Downstream(_, _, _)
Downstream(cfg, set, k) ==
    LET fed(c) == \E j \in 1..Len(c.inputs) : c.inputs[j].component \in set
        next == {cfg.transforms[i].key : i \in {j \in 1..Len(cfg.transforms) :
                                                   fed(cfg.transforms[j])}}
                \cup {cfg.sinks[i].key : i \in {j \in 1..Len(cfg.sinks) :
                                                  fed(cfg.sinks[j])}}
    IN  IF k = 0 THEN {} ELSE next \cup Downstream(cfg, next, k - 1)

\* The sinks of `cfg` reachable from source `key` through any number of transforms.
ReachableSinks(cfg, key) ==
    {i \in 1..Len(cfg.sinks) :
        cfg.sinks[i].key \in Downstream(cfg, {key}, Len(cfg.transforms) + 1)}

\* Config::propagate_acknowledgements: every source gets as its effective
\* flag the AND of the capability of its reachable sinks, FALSE without any.
propagate_acknowledgements(cfg) ==
    [cfg EXCEPT !.sources = [i \in 1..Len(cfg.sources) |->
        [cfg.sources[i] EXCEPT !.acks =
            /\ ReachableSinks(cfg, cfg.sources[i].key) # {}
            /\ \A j \in ReachableSinks(cfg, cfg.sources[i].key) : cfg.sinks[j].acks]]]

\* ----------------------------------------------------------------- builders

DefaultOutput(kind) == [port |-> NoPort, kind |-> kind]

NamedOutput(port, kind) == [port |-> SomePort(port), kind |-> kind]

AnyKind == {"log", "metric"}

\* test_util::mock::basic_source, basic_transform, basic_sink
basic_source(name) ==
    [key |-> ComponentKey(name), outputs |-> <<DefaultOutput("log")>>, acks |-> FALSE]

basic_transform(name, inputs) ==
    [key |-> ComponentKey(name), inputs |-> inputs, outputs |-> <<DefaultOutput("log")>>,
     accepts |-> AnyKind, expand |-> NoExpansion]

basic_sink(name, inputs) ==
    [key |-> ComponentKey(name), inputs |-> inputs, accepts |-> AnyKind, acks |-> TRUE]

ConfigBuilder(sources, transforms, sinks) ==
    [sources |-> sources, transforms |-> transforms, sinks |-> sinks, tests |-> <<>>]

foo1 == <<"f", "o", "o", "1">>
foo2 == <<"f", "o", "o", "2">>
bar == <<"b", "a", "r">>
foos == <<"f", "o", "o", "s">>
baz == <<"b", "a", "z">>
quix == <<"q", "u", "i", "x">>
quux == <<"q", "u", "u", "x">>

\* The builder of test::glob_expansion.
GlobTestBuilder ==
    ConfigBuilder(
        <<basic_source(foo1), basic_source(foo2), basic_source(bar)>>,
        <<basic_transform(foos, << <<"f", "o", "o", "*">> >>)>>,
        <<basic_sink(baz, << <<"f", "o", "o", "s", "*">>, <<"b", "*">> >>),
          basic_sink(quix, << <<"*", "o", "o", "*">> >>),
          basic_sink(quux, << <<"*">> >>)>>)

\* Transforms A and B feeding each other, and a sink on A.
CycleBuilder ==
    ConfigBuilder(
        <<basic_source(<<"s">>)>>,
        <<basic_transform(<<"A">>, << <<"B">>, <<"s">> >>),
          basic_transform(<<"B">>, << <<"A">> >>)>>,
        <<basic_sink(<<"k">>, << <<"A">> >>)>>)

\* A sink accepting only metrics wired to a source emitting only logs.
TypeMismatchBuilder ==
    ConfigBuilder(
        <<basic_source(<<"s">>)>>,
        <<>>,
        <<[basic_sink(<<"k">>, << <<"s">> >>) EXCEPT !.accepts = {"metric"}]>>)

\* A type mismatch and a cycle in one configuration.
MismatchAndCycleBuilder ==
    ConfigBuilder(
        <<basic_source(<<"s">>)>>,
        <<basic_transform(<<"A">>, << <<"B">>, <<"s">> >>),
          basic_transform(<<"B">>, << <<"A">> >>)>>,
        <<[basic_sink(<<"k">>, << <<"*">> >>) EXCEPT !.accepts = {"metric"}]>>)

\* A sink whose input names no component.
UnknownInputBuilder ==
    ConfigBuilder(
        <<basic_source(<<"s">>)>>,
        <<basic_transform(<<"t">>, << <<"s">>, <<"n", "o">> >>)>>,
        <<basic_sink(<<"k">>, << <<"t">>, <<"z">> >>)>>)

\* Transform R expanding into R.0, R.1, R.2, referenced by a sink as R.
FanOutBuilder ==
    ConfigBuilder(
        <<basic_source(<<"s">>)>>,
        <<[basic_transform(<<"R">>, << <<"s">> >>)
              EXCEPT !.expand = ParallelExpansion(<< <<"0">>, <<"1">>, <<"2">> >>)]>>,
        <<basic_sink(<<"k">>, << <<"R">> >>)>>)

\* One transform whose expansion fails beside one that passes through.
FailingExpansionBuilder ==
    ConfigBuilder(
        <<basic_source(<<"s">>)>>,
        <<[basic_transform(<<"R">>, << <<"s">> >>) EXCEPT !.expand = FailingExpansion],
          basic_transform(<<"t">>, << <<"s">> >>)>>,
        <<basic_sink(<<"k">>, << <<"*">> >>)>>)

\* Two transforms whose expansions both fail.
TwoFailingBuilder ==
    ConfigBuilder(
        <<basic_source(<<"s">>)>>,
        <<[basic_transform(<<"R">>, << <<"s">> >>) EXCEPT !.expand = FailingExpansion],
          [basic_transform(<<"Q">>, << <<"s">> >>) EXCEPT !.expand = FailingExpansion]>>,
        <<basic_sink(<<"k">>, << <<"z">> >>)>>)

\* Source S -> transform T -> sink1 (acks) and sink2 (no acks).
AcksBuilder ==
    ConfigBuilder(
        <<basic_source(<<"S">>)>>,
        <<basic_transform(<<"T">>, << <<"S">> >>)>>,
        <<basic_sink(<<"k", "1">>, << <<"T">> >>),
          [basic_sink(<<"k", "2">>, << <<"T">> >>) EXCEPT !.acks = FALSE]>>)

\* AcksBuilder without sink2.
AckedBuilder ==
    ConfigBuilder(
        <<basic_source(<<"S">>)>>,
        <<basic_transform(<<"T">>, << <<"S">> >>)>>,
        <<basic_sink(<<"k", "1">>, << <<"T">> >>)>>)

\* A source whose id `a**` does not compile as a pattern, named by sink k and
\* by transform t; a source u nothing consumes.
InvalidGlobBuilder ==
    ConfigBuilder(
        <<basic_source(<<"a", "*", "*">>), basic_source(<<"u">>)>>,
        <<basic_transform(<<"t">>, << <<"a", "*", "*">> >>)>>,
        <<basic_sink(<<"k">>, << <<"t">>, <<"a", "*", "*">> >>)>>)

\* A transform whose input literally names itself.
SelfLoopBuilder ==
    ConfigBuilder(
        <<basic_source(<<"s">>)>>,
        <<basic_transform(<<"A">>, << <<"A">>, <<"s">> >>)>>,
        <<basic_sink(<<"k">>, << <<"A">> >>)>>)

\* Transforms R and Q, both expanding; sink k names R.1 before R, sink j
\* names Q and R, transform t names R.
OverlapFanOutBuilder ==
    ConfigBuilder(
        <<basic_source(<<"s">>)>>,
        <<[basic_transform(<<"R">>, << <<"s">> >>)
              EXCEPT !.expand = ParallelExpansion(<< <<"0">>, <<"1">>, <<"2">> >>)],
          [basic_transform(<<"Q">>, << <<"s">> >>)
              EXCEPT !.expand = ParallelExpansion(<< <<"0">>, <<"1">> >>)],
          basic_transform(<<"t">>, << <<"R">> >>)>>,
        <<basic_sink(<<"k">>, << <<"R", ".", "1">>, <<"R">> >>),
          basic_sink(<<"j">>, << <<"Q">>, <<"R">> >>)>>)

Scenarios ==
    {GlobTestBuilder, CycleBuilder, TypeMismatchBuilder, MismatchAndCycleBuilder,
     UnknownInputBuilder, FanOutBuilder, FailingExpansionBuilder, TwoFailingBuilder,
     AcksBuilder, AckedBuilder, InvalidGlobBuilder, SelfLoopBuilder,
     OverlapFanOutBuilder}

\* End-to-end tests: one whose reference resolves, two whose references do not.
GoodTest(b) == [name |-> <<"g">>, refs |-> <<b.sources[1].key.id>>]

BadTest == [name |-> <<"x">>, refs |-> << <<"n", "o">>, <<"z">> >>]

WorseTest == [name |-> <<"y">>, refs |-> << <<"z">> >>]

TestLists(b) == {<<>>, <<GoodTest(b)>>, <<BadTest>>, <<GoodTest(b), BadTest, WorseTest>>}

Builders == UNION {{[b EXCEPT !.tests = t] : t \in TestLists(b)} : b \in Scenarios}

\* Generated builders for glob expansion: raw input lists drawn from patterns.
TransformPatterns ==
    {<<"*">>, <<"a", "*">>, <<"b", "*">>, <<"r", "*">>, <<"a">>, <<"b">>, <<"z">>,
     <<"a", "*", "*">>}

SinkPatterns == {<<"*">>, <<"b", "*">>, <<"z">>}

\* Sources a, ab; transform b with a default and a named output p; sink k.
PortedBuilder(tin, kin) ==
    ConfigBuilder(
        <<basic_source(<<"a">>), basic_source(<<"a", "b">>)>>,
        <<[basic_transform(<<"b">>, tin)
              EXCEPT !.outputs = <<DefaultOutput("log"), NamedOutput(<<"p">>, "log")>>]>>,
        <<basic_sink(<<"k">>, kin)>>)

\* Source a; transform r expanding into r.0, r.1, declared before transform b.
ExpandingBuilder(tin, kin) ==
    ConfigBuilder(
        <<basic_source(<<"a">>)>>,
        <<[basic_transform(<<"r">>, tin)
              EXCEPT !.expand = ParallelExpansion(<< <<"0">>, <<"1">> >>)],
          basic_transform(<<"b">>, << <<"a">> >>)>>,
        <<basic_sink(<<"k">>, kin)>>)

\* Raw inputs for the builder below: two that do not compile as patterns,
\* one of them the id of a component, and two wildcards.
LiteralPatterns == {<<"a", "*", "*">>, <<"*", "*", "*">>, <<"a", "*">>, <<"*">>}

\* Source a; a transform whose id `a**` does not compile as a pattern; sink k.
LiteralBuilder(tin, kin) ==
    ConfigBuilder(
        <<basic_source(<<"a">>)>>,
        <<basic_transform(<<"a", "*", "*">>, tin)>>,
        <<basic_sink(<<"k">>, kin)>>)

GlobBuilders ==
    {GlobTestBuilder}
    \cup {LiteralBuilder(tin, kin) : tin \in DistinctSeqs(LiteralPatterns, MaxInputs),
                                     kin \in DistinctSeqs(LiteralPatterns, MaxInputs)}
    \cup {PortedBuilder(tin, kin) : tin \in DistinctSeqs(TransformPatterns, MaxInputs),
                                    kin \in DistinctSeqs(SinkPatterns, MaxInputs)}
    \cup {ExpandingBuilder(tin, kin) : tin \in DistinctSeqs(TransformPatterns, MaxInputs),
                                       kin \in DistinctSeqs(SinkPatterns, MaxInputs)}

\* -------------------------------------------------------------------- state

VARIABLES
    pc,                   \* the statement of compile() about to run
    builder,              \* `builder`, later its destructured parts
    errors,               \* compile's `errors`
    expanded_transforms,  \* expand_macros' `expanded_transforms`
    expansions,           \* expand_macros' `expansions`, then compile's
    macro_errors,         \* expand_macros' `errors`
    graph,                \* compile's `graph`
    resolved,             \* compile's rebound `sinks`, `transforms`, `tests`
    config,               \* the Config built, as a sequence of 0 or 1 configs
    result,               \* what compile returned
    log,                  \* the warn! events emitted
    pre_globs,            \* history: the builder as expand_globs received it
    declared,             \* history: the builder as compile received it
    checked_names,        \* history: the key lists handed to check_names
    ran,                  \* history: the phases that ran, in order
    reported              \* history: the errors each phase reported

\* The state of the VRL compiler's ExternalEnv.
VARIABLES
    read_only_paths,      \* ExternalEnv.read_only_paths
    answer                \* the last is_read_only_path call and what it returned

\* The state of a use of the VRL compiler's LocalEnv.
VARIABLES
    local_self,           \* the LocalEnv `self`, as a function from Ident to Details
    local_other,          \* the LocalEnv `child` or `other`
    local_out             \* the method called and the LocalEnv it returned

\* The state of a run of the VRL tutorial.
VARIABLES
    prompt,               \* the readline call tutorial() waits at
    index,                \* tutorial's `index`
    accessed,             \* history: the last index used in `tutorials[index]`
    readline,             \* what the last readline call returned
    command_result,       \* what running the last program gave
    tutorial_result       \* what tutorial() returned

\* The state of a redis channel source.
VARIABLES
    redis_pc,             \* the await point subscribe() or its future is at
    connected,            \* history: what get_async_connection returned
    subscribed,           \* history: what pubsub_conn.subscribe returned
    subscribe_result,     \* what subscribe() returned
    delivered,            \* history: the payloads the pub/sub stream yielded
    effects,              \* history: what the loop did with each message
    stopped,              \* history: what made the loop end
    future_result         \* what the source future resolved to

compile_vars ==
    <<pc, builder, errors, expanded_transforms, expansions, macro_errors, graph,
      resolved, config, result, log, pre_globs, declared, checked_names, ran,
      reported>>

env_vars == <<read_only_paths, answer>>

\* The variables compile() does not touch.
local_vars == <<local_self, local_other, local_out>>

tutorial_vars ==
    <<prompt, index, accessed, readline, command_result, tutorial_result>>

redis_vars ==
    <<redis_pc, connected, subscribed, subscribe_result, delivered, effects, stopped,
      future_result>>

other_vars == <<env_vars, local_vars, tutorial_vars, redis_vars>>

vars == <<compile_vars, other_vars>>

Phases ==
    <<"check_names", "expand_macros", "expand_globs", "check_shape", "check_resources",
      "check_outputs", "Graph::new", "typecheck", "check_for_cycles", "read_back",
      "resolve_outputs", "propagate_acknowledgements">>

EmptyBuilder == ConfigBuilder(<<>>, <<>>, <<>>)

NoResult == [tag |-> "none", errors |-> <<>>, warnings |-> <<>>]

Ok(warnings) == [tag |-> "Ok", errors |-> <<>>, warnings |-> warnings]

Err(errs) == [tag |-> "Err", errors |-> errs, warnings |-> <<>>]

\* The state on entry to compile(builder), for a builder drawn from `from`.
InitOf(from) ==
    /\ builder \in from
    /\ pc = "check_names"
    /\ errors = <<>>
    /\ expanded_transforms = <<>>
    /\ expansions = <<>>
    /\ macro_errors = <<>>
    /\ graph = NoGraph
    /\ resolved = [sinks |-> <<>>, transforms |-> <<>>, tests |-> <<>>]
    /\ config = <<>>
    /\ result = NoResult
    /\ log = <<>>
    /\ pre_globs = EmptyBuilder
    /\ declared = builder
    /\ checked_names = <<>>
    /\ ran = <<>>
    /\ reported = [p \in Range(Phases) |-> <<>>]

NoAnswer == [paths |-> <<>>, path |-> <<>>, root |-> "none", value |-> FALSE]

\* ExternalEnv::new_with_kind: no read-only path, and no call made yet.
EnvStart ==
    /\ read_only_paths = <<>>
    /\ answer = NoAnswer

\* LocalEnv::default(): no binding.
NoBindings == [ident \in {} |-> {}]

NoCall == [method |-> "none", env |-> NoBindings]

LocalStart(envs) ==
    /\ local_self \in envs
    /\ local_other \in envs
    /\ local_out = NoCall

NoRead == [tag |-> "none", value |-> ""]

\* tutorial() before its first readline: `let mut index = 0`.
TutorialStart ==
    /\ prompt = "intro"
    /\ index = 0
    /\ accessed = <<>>
    /\ readline = NoRead
    /\ command_result = "none"
    /\ tutorial_result = "none"

\* subscribe() on entry.
RedisStart ==
    /\ redis_pc = "connect"
    /\ connected = "none"
    /\ subscribed = "none"
    /\ subscribe_result = "none"
    /\ delivered = <<>>
    /\ effects = <<>>
    /\ stopped = "none"
    /\ future_result = "none"

\* The state of everything but compile() before anything ran.
OthersStart == EnvStart /\ LocalStart({NoBindings}) /\ TutorialStart /\ RedisStart

Init == InitOf(Builders) /\ OthersStart

GlobInit == InitOf(GlobBuilders) /\ OthersStart

\* ------------------------------------------------------------------ compile

\* errors.extend(more)
ErrorsExtend(errs, more) == errs \o more

\* `if let Err(e) = validation::check_*(..) { errors.extend(e) }`
Validate(phase, next) ==
    /\ pc = phase
    /\ \E e \in ValidatorResults(phase) :
          /\ errors' = ErrorsExtend(errors, e)
          /\ reported' = [reported EXCEPT ![phase] = e]
    /\ ran' = Append(ran, phase)
    /\ pc' = next
    /\ UNCHANGED <<builder, expanded_transforms, expansions, macro_errors, graph,
                   resolved, config, result, log, pre_globs, declared,
                   other_vars>>

\* A compile that hands check_names the keys of the transforms only.
TransformNamesOnly(b) == [i \in 1..Len(b.transforms) |-> b.transforms[i].key]

\* builder.transforms.keys().chain(builder.sources.keys()).chain(builder.sinks.keys())
NamesToCheck(b) ==
    [i \in 1..Len(b.transforms) |-> b.transforms[i].key]
    \o [i \in 1..Len(b.sources) |-> b.sources[i].key]
    \o [i \in 1..Len(b.sinks) |-> b.sinks[i].key]

CheckNames ==
    /\ Validate("check_names", "expand_macros")
    /\ checked_names' = Append(checked_names, NamesToCheck(builder))

\* An expand_macros that records the first failure only.
MacroErrorKeepFirst(errs, error) == IF errs = <<>> THEN error ELSE errs

\* `if let Err(error) = transform.expand(..) { errors.push(error) }`, the
\* result of expand being <<>> for Ok and <<error>> for Err(error).
MacroErrorPush(errs, error) == errs \o error

\* An IndexMap::pop that removes two entries.
AfterPopDropsTwo(m) == IF Len(m) >= 2 THEN SubSeq(m, 1, Len(m) - 2) ELSE <<>>

\* What IndexMap::pop leaves in the map: all entries but the last.
AfterPop(m) == Front(m)

\* One iteration of `while let Some((key, transform)) = config.transforms.pop()`:
\* IndexMap::pop takes the last entry.
ExpandMacrosPop ==
    /\ pc = "expand_macros"
    /\ builder.transforms # <<>>
    /\ LET transform == Last(builder.transforms)
           r == TransformExpand(transform.key, transform, expanded_transforms,
                                expansions)
       IN  /\ builder' = [builder EXCEPT !.transforms = AfterPop(@)]
           /\ expanded_transforms' = r.expanded_transforms
           /\ expansions' = r.expansions
           /\ macro_errors' = MacroErrorPush(macro_errors, r.error)
    /\ UNCHANGED <<pc, errors, graph, resolved, config, result, log, pre_globs, declared,
                   checked_names, ran, reported,
                   other_vars>>

\* An expand_macros that returns Ok whatever the expansions did.
ExpansionNeverFails(errs) == FALSE

\* `if !errors.is_empty()` of expand_macros
ExpansionFailed(errs) == errs # <<>>

\* What `expand_macros(&mut builder)?` makes compile return on Err(e).
MacroFailureReturn(errs, e) == e

\* The end of expand_macros and the `?` applied to its result.
ExpandMacrosReturn ==
    /\ pc = "expand_macros"
    /\ builder.transforms = <<>>
    /\ builder' = [builder EXCEPT !.transforms = expanded_transforms]
    /\ ran' = Append(ran, "expand_macros")
    /\ reported' = [reported EXCEPT !["expand_macros"] = macro_errors]
    /\ IF ExpansionFailed(macro_errors)
       THEN /\ result' = Err(MacroFailureReturn(errors, macro_errors))
            /\ pc' = "done"
       ELSE /\ result' = result
            /\ pc' = "expand_globs"
    /\ UNCHANGED <<errors, expanded_transforms, expansions, macro_errors, graph,
                   resolved, config, log, pre_globs, declared, checked_names,
                   other_vars>>

\* A compile that goes from glob expansion straight to check_resources.
AfterExpandGlobsSkipsShape == "check_resources"

\* The statement that follows expand_globs(&mut builder).
AfterExpandGlobs == "check_shape"

ExpandGlobs ==
    /\ pc = "expand_globs"
    /\ pre_globs' = builder
    /\ builder' = expand_globs(builder)
    /\ log' = log \o ExpandGlobsLog(builder)
    /\ ran' = Append(ran, "expand_globs")
    /\ pc' = AfterExpandGlobs
    /\ UNCHANGED <<errors, expanded_transforms, expansions, macro_errors, graph,
                   resolved, config, result, reported, declared, checked_names,
                   other_vars>>

CheckShape == Validate("check_shape", "check_resources") /\ UNCHANGED checked_names

CheckResources ==
    Validate("check_resources", "check_outputs") /\ UNCHANGED checked_names

CheckOutputs == Validate("check_outputs", "Graph::new") /\ UNCHANGED checked_names

\* A graph failure that returns the construction errors alone.
GraphFailureReturnsOwn(errs, graph_errors) == graph_errors

\* `errors.extend(graph_errors); return Err(errors)`
GraphFailureReturn(errs, graph_errors) == ErrorsExtend(errs, graph_errors)

GraphNewStep ==
    /\ pc = "Graph::new"
    /\ LET r == GraphNew(builder.sources, builder.transforms, builder.sinks,
                         to_string_expansions(expansions))
       IN  /\ reported' = [reported EXCEPT !["Graph::new"] = r.errors]
           /\ IF r.errors # <<>>
              THEN /\ errors' = GraphFailureReturn(errors, r.errors)
                   /\ result' = Err(errors')
                   /\ graph' = graph
                   /\ pc' = "done"
              ELSE /\ graph' = r.graph
                   /\ pc' = "typecheck"
                   /\ UNCHANGED <<errors, result>>
    /\ ran' = Append(ran, "Graph::new")
    /\ UNCHANGED <<builder, expanded_transforms, expansions, macro_errors, resolved,
                   config, log, pre_globs, declared, checked_names,
                   other_vars>>

\* A typecheck that ends the checks when it found a mismatch.
AfterTypecheckStops(type_errors) ==
    IF type_errors # <<>> THEN "finish" ELSE "check_for_cycles"

\* The statement that follows `if let Err(type_errors) = graph.typecheck()`,
\* whatever the outcome.
AfterTypecheck(type_errors) == "check_for_cycles"

Typecheck ==
    /\ pc = "typecheck"
    /\ errors' = ErrorsExtend(errors, typecheck(graph))
    /\ reported' = [reported EXCEPT !["typecheck"] = typecheck(graph)]
    /\ ran' = Append(ran, "typecheck")
    /\ pc' = AfterTypecheck(typecheck(graph))
    /\ UNCHANGED <<builder, expanded_transforms, expansions, macro_errors, graph,
                   resolved, config, result, log, pre_globs, declared, checked_names,
                   other_vars>>

\* A compile that lets the cycle error go.
CycleErrorDropped(errs, e) == errs

\* `if let Err(e) = graph.check_for_cycles() { errors.push(e) }`, the result
\* of check_for_cycles being <<>> for Ok and <<e>> for Err(e).
CycleErrorPush(errs, e) == errs \o e

CheckForCycles ==
    /\ pc = "check_for_cycles"
    /\ errors' = CycleErrorPush(errors, check_for_cycles(graph))
    /\ reported' = [reported EXCEPT !["check_for_cycles"] = check_for_cycles(graph)]
    /\ ran' = Append(ran, "check_for_cycles")
    /\ pc' = "read_back"
    /\ UNCHANGED <<builder, expanded_transforms, expansions, macro_errors, graph,
                   resolved, config, result, log, pre_globs, declared, checked_names,
                   other_vars>>

\* sink.with_inputs(inputs), transform.with_inputs(inputs)
with_inputs(component, inputs) == [component EXCEPT !.inputs = inputs]

\* The inputs of sinks, then of transforms, read back from the graph.
ReadBack ==
    /\ pc = "read_back"
    /\ resolved' =
          [resolved EXCEPT
              !.sinks = [i \in 1..Len(builder.sinks) |->
                  with_inputs(builder.sinks[i], inputs_for(graph, builder.sinks[i].key))],
              !.transforms = [i \in 1..Len(builder.transforms) |->
                  with_inputs(builder.transforms[i],
                              inputs_for(graph, builder.transforms[i].key))]]
    /\ ran' = Append(ran, "read_back")
    /\ pc' = "resolve_outputs"
    /\ UNCHANGED <<builder, errors, expanded_transforms, expansions, macro_errors,
                   graph, config, result, log, pre_globs, declared, checked_names, reported,
                   other_vars>>

\* A test failure merged into the accumulated errors.
TestFailureMerges(errs, e) == ErrorsExtend(errs, e)

\* What the `?` on the collected test results makes compile return on Err(e).
TestFailureReturn(errs, e) == e

\* tests.into_iter().map(resolve_outputs).collect::<Result<Vec<_>, Vec<_>>>()?
\* stops at the first test whose resolution fails and returns its errors.
ResolveTests ==
    /\ pc = "resolve_outputs"
    /\ LET str_expansions == to_string_expansions(expansions)
           outcome == [i \in 1..Len(builder.tests) |->
                          resolve_outputs(builder.tests[i], graph, str_expansions)]
           failing == {i \in 1..Len(builder.tests) : outcome[i] # <<>>}
       IN  IF failing # {}
           THEN LET first == CHOOSE i \in failing : \A j \in failing : i <= j
                IN  /\ reported' = [reported EXCEPT !["resolve_outputs"] = outcome[first]]
                    /\ result' = Err(TestFailureReturn(errors, outcome[first]))
                    /\ resolved' = resolved
                    /\ pc' = "done"
           ELSE /\ resolved' = [resolved EXCEPT !.tests = builder.tests]
                /\ pc' = "finish"
                /\ UNCHANGED <<result, reported>>
    /\ ran' = Append(ran, "resolve_outputs")
    /\ UNCHANGED <<builder, errors, expanded_transforms, expansions, macro_errors,
                   graph, config, log, pre_globs, declared, checked_names,
                   other_vars>>

\* A final decision that ignores the accumulated errors.
ErrorsIgnored(errs) == TRUE

\* `if errors.is_empty()`
ErrorsEmpty(errs) == errs = <<>>

\* What config.propagate_acknowledgements() may return: Ok(()), shown as <<>>,
\* or Err of an error list, which the `?` makes compile return.
AckResults ==
    {[i \in 1..n |-> Error("propagate_acknowledgements", i, <<>>, <<>>)] : n \in 0..1}

\* A propagate_acknowledgements whose failure compile swallows.
AckFailureSwallowed(ack) == FALSE

\* The `?` on config.propagate_acknowledgements(): Err(e) makes compile return.
AckFailed(ack) == ack # <<>>

\* A compile that returns the Config as built, without the propagation.
PropagationSkipped(cfg) == cfg

\* The Config after the in-place config.propagate_acknowledgements().
Propagated(cfg) == propagate_acknowledgements(cfg)

\* A warning string, kept structured: its text and the component it names.
Warning(message, component_id) == [message |-> message, component_id |-> component_id]

\* What validation::warnings(&config) may return: it is handed the Config
\* alone and yields no warning or one about one of its sources.
WarningResults(cfg) ==
    {<<>>} \cup {<<Warning("validation", cfg.sources[i].key.id)>> :
                    i \in 1..Len(cfg.sources)}

\* The final decision: build the Config, propagate acknowledgements and
\* return Ok((config, warnings)), or return Err(errors).
Finish ==
    /\ pc = "finish"
    /\ IF ErrorsEmpty(errors)
       THEN LET built == [sources |-> builder.sources,
                          sinks |-> resolved.sinks,
                          transforms |-> resolved.transforms,
                          tests |-> resolved.tests,
                          expansions |-> expansions]
            IN  \E ack \in AckResults, warnings \in WarningResults(Propagated(built)) :
                   /\ ran' = Append(ran, "propagate_acknowledgements")
                   /\ reported' = [reported EXCEPT
                                      !["propagate_acknowledgements"] = ack]
                   /\ IF AckFailed(ack)
                      THEN /\ result' = Err(ack)
                           /\ config' = <<>>
                      ELSE /\ result' = Ok(warnings)
                           /\ config' = <<Propagated(built)>>
       ELSE /\ result' = Err(errors)
            /\ UNCHANGED <<ran, reported, config>>
    /\ pc' = "done"
    /\ UNCHANGED <<builder, errors, expanded_transforms, expansions, macro_errors,
                   graph, resolved, log, pre_globs, declared, checked_names,
                   other_vars>>

Next ==
    \/ CheckNames
    \/ ExpandMacrosPop
    \/ ExpandMacrosReturn
    \/ ExpandGlobs
    \/ CheckShape
    \/ CheckResources
    \/ CheckOutputs
    \/ GraphNewStep
    \/ Typecheck
    \/ CheckForCycles
    \/ ReadBack
    \/ ResolveTests
    \/ Finish

Spec == Init /\ [][Next]_vars

\* The phases up to glob expansion, on the generated builders.
GlobNext ==
    \/ CheckNames
    \/ ExpandMacrosPop
    \/ ExpandMacrosReturn
    \/ ExpandGlobs

GlobSpec == GlobInit /\ [][GlobNext]_vars

\* compile up to the return of expand_macros.
MacroNext ==
    \/ CheckNames
    \/ ExpandMacrosPop
    \/ ExpandMacrosReturn

\* compile is straight-line sequential code: a statement that can run does.
MacroSpec == Init /\ [][MacroNext]_vars /\ WF_vars(MacroNext)

\* ------------------------------------------------------ orchestration claims

Ran(phase) == Contains(ran, phase)

Reported(phase) == reported[phase] # <<>>

\* The errors of the four validators, in the order compile calls them.
ValidatorErrors ==
    reported["check_names"] \o reported["check_shape"] \o reported["check_resources"]
    \o reported["check_outputs"]

\* The errors of the six accumulating checks, in the order compile calls them.
AccumulatedErrors ==
    ValidatorErrors \o reported["typecheck"] \o reported["check_for_cycles"]

\* C1: compile returns Ok with a Config only if no phase reported an error;
\* once any phase has reported an error and compile has returned, it returned
\* Err and built no Config.
C1_AllOrNothing ==
    /\ result.tag = "Ok" => \A p \in Range(Phases) : ~Reported(p)
    /\ (pc = "done" /\ \E p \in Range(Phases) : Reported(p)) =>
           result.tag = "Err" /\ config = <<>>
    /\ config # <<>> <=> result.tag = "Ok"
    /\ pc = "done" <=> result.tag # "none"

C1_Witness ==
    /\ pc = "done"
    /\ Reported("typecheck")
    /\ \A p \in Range(Phases) \ {"typecheck"} : ~Reported(p)
    /\ result.tag = "Err"
    /\ config = <<>>

\* C2: when Graph::new fails, compile returns at once Err of the errors of
\* check_names, check_shape, check_resources, check_outputs, in that order,
\* followed by the graph errors, and none of typecheck, check_for_cycles,
\* read-back, test resolution, acknowledgement propagation runs.
C2_GraphFailureStops ==
    Reported("Graph::new") =>
        /\ pc = "done"
        /\ result = Err(ValidatorErrors \o reported["Graph::new"])
        /\ Last(ran) = "Graph::new"
        /\ \A p \in {"typecheck", "check_for_cycles", "read_back", "resolve_outputs",
                     "propagate_acknowledgements"} : ~Ran(p)

C2_Witness ==
    /\ Reported("Graph::new")
    /\ Len(reported["check_names"]) = 2
    /\ Reported("check_shape")
    /\ Reported("check_resources")
    /\ Reported("check_outputs")
    /\ result.tag = "Err"

\* C3: once the expansion of a transform has failed, no phase after macro
\* expansion ever runs, and compile returns Err when expand_macros returns.
C3_MacroFailureStops ==
    macro_errors # <<>> =>
        /\ pc \in {"expand_macros", "done"}
        /\ \A p \in Range(Phases) \ {"check_names", "expand_macros"} : ~Ran(p)
        /\ Ran("expand_macros") => pc = "done" /\ result.tag = "Err" /\ config = <<>>

C3_Witness ==
    /\ pc = "done"
    /\ Len(macro_errors) = 2
    /\ ran = <<"check_names", "expand_macros">>
    /\ result.tag = "Err"

\* C4: when macro expansion fails after check_names reported errors, the Err
\* list is the name-check errors followed by the expansion errors.
C4_MacroFailureKeepsNameErrors ==
    (pc = "done" /\ Reported("expand_macros") /\ Reported("check_names")) =>
        result = Err(reported["check_names"] \o reported["expand_macros"])

\* C5: when macro expansion, graph construction and test resolution succeed,
\* all six accumulating checks have run whatever the earlier ones reported,
\* and if any of them failed the Err list is the concatenation of their errors
\* in the order names, shape, resources, outputs, typecheck, cycles.
C5_SoftErrorsAccumulate ==
    /\ (pc = "done" /\ Ran("expand_macros") /\ ~Reported("expand_macros")) =>
           \A p \in {"check_shape", "check_resources", "check_outputs", "Graph::new"} :
               Ran(p)
    /\ (pc = "done" /\ Ran("Graph::new") /\ ~Reported("Graph::new")) =>
           \A p \in {"typecheck", "check_for_cycles", "resolve_outputs"} : Ran(p)
    /\ (/\ pc = "done"
        /\ Ran("resolve_outputs")
        /\ ~Reported("resolve_outputs")
        /\ AccumulatedErrors # <<>>) =>
           result = Err(AccumulatedErrors)

C5_Witness ==
    /\ pc = "done"
    /\ Ran("resolve_outputs")
    /\ ~Reported("resolve_outputs")
    /\ Reported("check_names")
    /\ Reported("check_outputs")
    /\ Reported("typecheck")
    /\ Reported("check_for_cycles")
    /\ result = Err(AccumulatedErrors)

\* C6: when the resolution of a test fails, compile returns at once Err of
\* the test-resolution errors alone, whether or not errors were accumulated
\* before, and the accumulated errors are not in the returned list.
C6_TestFailureAlone ==
    Reported("resolve_outputs") =>
        /\ pc = "done"
        /\ result = Err(reported["resolve_outputs"])
        /\ \A i \in 1..Len(result.errors) : result.errors[i].phase = "resolve_outputs"
        /\ Last(ran) = "resolve_outputs"

C6_Witness ==
    /\ Reported("resolve_outputs")
    /\ Reported("check_names")
    /\ Reported("typecheck")
    /\ Reported("check_for_cycles")
    /\ errors # <<>>
    /\ result = Err(reported["resolve_outputs"])

\* C7: the phases that have run are always an initial part of the fixed
\* order check_names, expand_macros, expand_globs, check_shape,
\* check_resources, check_outputs, Graph::new, typecheck, check_for_cycles,
\* read-back, test resolution, propagate_acknowledgements: each at most once,
\* none before all earlier ones.
C7_PhaseOrder ==
    /\ Len(ran) <= Len(Phases)
    /\ ran = SubSeq(Phases, 1, Len(ran))

C7_Witness ==
    /\ pc = "done"
    /\ ran = Phases
    /\ result.tag = "Ok"

\* ------------------------------------------------------ glob expansion claims

\* Source outputs in declaration order, then transform outputs, as strings.
DeclaredCandidates(b) ==
    Flatten([i \in 1..Len(b.sources) |-> ComponentOutputs(b.sources[i])])
    \o Flatten([i \in 1..Len(b.transforms) |-> ComponentOutputs(b.transforms[i])])

\* The candidates other than `id` that a raw input matches, in candidate order.
MatchingCandidates(raw_input, id, candidates) ==
    SelectSeq(candidates, LAMBDA c : InputMatcherMatches(raw_input, c) /\ c # id)

\* `result`, from position start + 1 on, consists of one segment per raw input
\* from the i-th on, in order; the segment of a raw input that matches is
\* exactly its matching candidates, that of another has at most one entry.
RECURSIVE ExactSegments(_, _, _, _, _, _)
ExactSegments(raws, res, id, candidates, i, start) ==
    IF i > Len(raws) THEN start = Len(res)
    ELSE LET m == MatchingCandidates(raws[i], id, candidates)
         IN  IF m # <<>>
             THEN /\ start + Len(m) <= Len(res)
                  /\ SubSeq(res, start + 1, start + Len(m)) = m
                  /\ ExactSegments(raws, res, id, candidates, i + 1, start + Len(m))
             ELSE \E end \in start..(start + 1) :
                     ExactSegments(raws, res, id, candidates, i + 1, end)

\* As ExactSegments, the segment of a raw input that matches being its
\* matching candidates without those already in the list before the segment.
RECURSIVE NewSegments(_, _, _, _, _, _)
NewSegments(raws, res, id, candidates, i, start) ==
    IF i > Len(raws) THEN start = Len(res)
    ELSE LET m == MatchingCandidates(raws[i], id, candidates)
             new == SelectSeq(m, LAMBDA c : ~Contains(SubSeq(res, 1, start), c))
         IN  IF m # <<>>
             THEN /\ start + Len(new) <= Len(res)
                  /\ SubSeq(res, start + 1, start + Len(new)) = new
                  /\ NewSegments(raws, res, id, candidates, i + 1, start + Len(new))
             ELSE \E end \in start..(start + 1) :
                     NewSegments(raws, res, id, candidates, i + 1, end)

\* The inputs test::glob_expansion asserts.
GlobTestExpected ==
    /\ builder.transforms[1].inputs = <<foo1, foo2>>
    /\ builder.sinks[1].inputs = <<foos, bar>>
    /\ builder.sinks[2].inputs = <<foo1, foo2, foos>>
    /\ builder.sinks[3].inputs = <<foo1, foo2, bar, foos>>

\* C8 as stated: after expand_globs the inputs of every transform and sink
\* are, raw input by raw input in declared order, exactly the candidates each
\* matching raw input matches, in candidate order.
C8_ExactlyTheMatches ==
    Ran("expand_globs") =>
        /\ \A i \in 1..Len(builder.transforms) :
              ExactSegments(pre_globs.transforms[i].inputs, builder.transforms[i].inputs,
                            builder.transforms[i].key.id, DeclaredCandidates(pre_globs),
                            1, 0)
        /\ \A i \in 1..Len(builder.sinks) :
              ExactSegments(pre_globs.sinks[i].inputs, builder.sinks[i].inputs,
                            builder.sinks[i].key.id, DeclaredCandidates(pre_globs), 1, 0)

\* C8 (amended): after expand_globs the inputs of every transform and sink
\* are, raw input by raw input in declared order, the candidates each matching
\* raw input matches, in candidate order (source outputs in declaration order,
\* then transform outputs), less those an earlier raw input already put in
\* the list; the builder of test::glob_expansion gets the asserted inputs.
C8_MatchesInCandidateOrder ==
    Ran("expand_globs") =>
        /\ Len(builder.transforms) = Len(pre_globs.transforms)
        /\ Len(builder.sinks) = Len(pre_globs.sinks)
        /\ \A i \in 1..Len(builder.transforms) :
              NewSegments(pre_globs.transforms[i].inputs, builder.transforms[i].inputs,
                          builder.transforms[i].key.id, DeclaredCandidates(pre_globs), 1, 0)
        /\ \A i \in 1..Len(builder.sinks) :
              NewSegments(pre_globs.sinks[i].inputs, builder.sinks[i].inputs,
                          builder.sinks[i].key.id, DeclaredCandidates(pre_globs), 1, 0)
        /\ pre_globs = GlobTestBuilder => GlobTestExpected

C8_Witness ==
    /\ Ran("expand_globs")
    /\ pre_globs = GlobTestBuilder
    /\ GlobTestExpected

\* A raw input that compiles as a pattern and holds a wildcard.
IsWildcard(raw_input) ==
    PatternNewOk(raw_input) /\ \E j \in 1..Len(raw_input) : raw_input[j] \in {"*", "?"}

\* C9: after expand_globs the inputs of a transform or sink X that has a
\* wildcard input contain no output of X: neither `X` nor any `X.port`.
C9_NoOwnOutput ==
    Ran("expand_globs") =>
        /\ \A i \in 1..Len(builder.transforms) :
              (\E j \in 1..Len(pre_globs.transforms[i].inputs) :
                   IsWildcard(pre_globs.transforms[i].inputs[j])) =>
                  \A o \in Range(ComponentOutputs(builder.transforms[i])) :
                      ~Contains(builder.transforms[i].inputs, o)
        /\ \A i \in 1..Len(builder.sinks) :
              (\E j \in 1..Len(pre_globs.sinks[i].inputs) :
                   IsWildcard(pre_globs.sinks[i].inputs[j])) =>
                  ~Contains(builder.sinks[i].inputs, builder.sinks[i].key.id)

\* `result`, from position start + 1 on, consists of one segment per raw input
\* from the i-th on, in order; the segment of a raw input that no candidate
\* other than `id` matches is that raw input itself, that of another holds
\* only candidates it matches.
RECURSIVE VerbatimSegments(_, _, _, _, _, _)
VerbatimSegments(raws, res, id, candidates, i, start) ==
    IF i > Len(raws) THEN start = Len(res)
    ELSE LET m == MatchingCandidates(raws[i], id, candidates)
         IN  IF m = <<>>
             THEN /\ start < Len(res)
                  /\ res[start + 1] = raws[i]
                  /\ VerbatimSegments(raws, res, id, candidates, i + 1, start + 1)
             ELSE \E end \in start..Len(res) :
                     /\ \A j \in (start + 1)..end : Contains(m, res[j])
                     /\ VerbatimSegments(raws, res, id, candidates, i + 1, end)

\* C10: after expand_globs every raw input that no candidate other than the
\* consumer's own id matches stands verbatim in the consumer's inputs, at its
\* place among the replacements of the other raw inputs.
C10_UnmatchedKeptVerbatim ==
    Ran("expand_globs") =>
        /\ \A i \in 1..Len(builder.transforms) :
              VerbatimSegments(pre_globs.transforms[i].inputs,
                               builder.transforms[i].inputs,
                               builder.transforms[i].key.id,
                               DeclaredCandidates(pre_globs), 1, 0)
        /\ \A i \in 1..Len(builder.sinks) :
              VerbatimSegments(pre_globs.sinks[i].inputs, builder.sinks[i].inputs,
                               builder.sinks[i].key.id, DeclaredCandidates(pre_globs),
                               1, 0)

\* Transform b, which only its own id `b` matches among the candidates, keeps
\* the raw input `b` between the replacements of `a*` and the unmatched `z`.
C10_Witness ==
    /\ Ran("expand_globs")
    /\ \E i \in 1..Len(builder.transforms) :
          /\ builder.transforms[i].key.id = <<"b">>
          /\ pre_globs.transforms[i].inputs = << <<"a", "*">>, <<"b">> >>
          /\ builder.transforms[i].inputs = << <<"a">>, <<"a", "b">>, <<"b">> >>
    /\ \E i \in 1..Len(builder.sinks) :
          /\ pre_globs.sinks[i].inputs = << <<"z">>, <<"*">> >>
          /\ builder.sinks[i].inputs[1] = <<"z">>
          /\ Len(builder.sinks[i].inputs) > 1

\* `result`, from position start + 1 on, consists of one segment per raw input
\* from the i-th on, in order; the segment of a raw input that does not
\* compile as a pattern is that very string, or nothing when the list before
\* the segment already holds it.
RECURSIVE LiteralSegments(_, _, _, _)
LiteralSegments(raws, res, i, start) ==
    IF i > Len(raws) THEN start = Len(res)
    ELSE IF ~PatternNewOk(raws[i])
         THEN LET new == IF Contains(SubSeq(res, 1, start), raws[i])
                         THEN <<>> ELSE <<raws[i]>>
              IN  /\ start + Len(new) <= Len(res)
                  /\ SubSeq(res, start + 1, start + Len(new)) = new
                  /\ LiteralSegments(raws, res, i + 1, start + Len(new))
         ELSE \E end \in start..Len(res) : LiteralSegments(raws, res, i + 1, end)

\* C11: a raw input that does not compile as a glob pattern contributes to
\* the consumer's inputs the string equal to it and nothing else, whether a
\* candidate equal to it exists, is the consumer's own id, or does not exist;
\* expand_globs adds no error to the error list and compile goes on to
\* check_shape without returning.
C11_InvalidPatternIsLiteral ==
    Ran("expand_globs") =>
        /\ \A i \in 1..Len(builder.transforms) :
              /\ LiteralSegments(pre_globs.transforms[i].inputs,
                                 builder.transforms[i].inputs, 1, 0)
              /\ \A j \in 1..Len(pre_globs.transforms[i].inputs) :
                    ~PatternNewOk(pre_globs.transforms[i].inputs[j]) =>
                        Contains(builder.transforms[i].inputs,
                                 pre_globs.transforms[i].inputs[j])
        /\ \A i \in 1..Len(builder.sinks) :
              /\ LiteralSegments(pre_globs.sinks[i].inputs, builder.sinks[i].inputs, 1, 0)
              /\ \A j \in 1..Len(pre_globs.sinks[i].inputs) :
                    ~PatternNewOk(pre_globs.sinks[i].inputs[j]) =>
                        Contains(builder.sinks[i].inputs, pre_globs.sinks[i].inputs[j])
        /\ errors = reported["check_names"]
        /\ pc = "check_shape"
        /\ result = NoResult

\* Sink k resolves `a**` to the transform of that id and keeps `***`, which
\* no candidate equals; that transform keeps its own id `a**` in place after
\* the replacement of `a*`, which as a pattern matches `a` and `a**`.
C11_Witness ==
    /\ Ran("expand_globs")
    /\ Contains(DeclaredCandidates(pre_globs), <<"a", "*", "*">>)
    /\ pre_globs.sinks[1].inputs = << <<"a", "*", "*">>, <<"*", "*", "*">> >>
    /\ builder.sinks[1].inputs = << <<"a", "*", "*">>, <<"*", "*", "*">> >>
    /\ builder.transforms[1].key.id = <<"a", "*", "*">>
    /\ pre_globs.transforms[1].inputs = << <<"a", "*">>, <<"a", "*", "*">> >>
    /\ builder.transforms[1].inputs = << <<"a">>, <<"a", "*", "*">> >>

\* -------------------------------------------------------- warnings claims

\* The ids of the transforms, then the sinks, of `b`, one per raw input of
\* theirs that does not compile as a pattern.
RECURSIVE InvalidInputOwners(_)
InvalidInputOwners(components) ==
    IF components = <<>> THEN <<>>
    ELSE LET c == Head(components)
             bad == SelectSeq(c.inputs, LAMBDA r : ~PatternNewOk(r))
         IN  [j \in 1..Len(bad) |-> c.key.id] \o InvalidInputOwners(Tail(components))

FanOut(raw, exps) ==
    LET at == {i \in 1..Len(exps) : exps[i].key.id = raw}
    IN  IF at = {} THEN <<>>
        ELSE LET values == exps[CHOOSE i \in at : TRUE].values
             IN  [j \in 1..Len(values) |-> OutputId(values[j], NoPort)]

\* `res`, from position start + 1 on, consists of one segment per input string
\* from the i-th on, in order; the segment of a string naming an expanded
\* component is its whole fan-out, that of another has at most one entry.
RECURSIVE WholeFanOuts(_, _, _, _, _)
WholeFanOuts(raws, res, exps, i, start) ==
    IF i > Len(raws) THEN start = Len(res)
    ELSE LET f == FanOut(raws[i], exps)
         IN  IF f # <<>>
             THEN /\ start + Len(f) <= Len(res)
                  /\ SubSeq(res, start + 1, start + Len(f)) = f
                  /\ WholeFanOuts(raws, res, exps, i + 1, start + Len(f))
             ELSE \E end \in start..(start + 1) :
                     WholeFanOuts(raws, res, exps, i + 1, end)

\* As WholeFanOuts, the segment of a string naming an expanded component being
\* its fan-out without the outputs already in the list before the segment.
RECURSIVE NewFanOuts(_, _, _, _, _)
NewFanOuts(raws, res, exps, i, start) ==
    IF i > Len(raws) THEN start = Len(res)
    ELSE LET f == FanOut(raws[i], exps)
             new == SelectSeq(f, LAMBDA o : ~Contains(SubSeq(res, 1, start), o))
         IN  IF f # <<>>
             THEN /\ start + Len(new) <= Len(res)
                  /\ SubSeq(res, start + 1, start + Len(new)) = new
                  /\ NewFanOuts(raws, res, exps, i + 1, start + Len(new))
             ELSE \E end \in start..(start + 1) :
                     NewFanOuts(raws, res, exps, i + 1, end)

\* No resolved input of the Config refers to a component the map records as
\* expanded, and every resolved input is an output of a component of the Config.
NoUnresolvedReference(cfg) ==
    \A c \in Range(cfg.sinks) \cup Range(cfg.transforms) :
        \A j \in 1..Len(c.inputs) :
            /\ \A e \in 1..Len(cfg.expansions) :
                  c.inputs[j].component # cfg.expansions[e].key
            /\ \E o \in 1..Len(graph.outputs) : graph.outputs[o].id = c.inputs[j]

\* to_string_expansions keeps the order of the keys and of every list.
StringExpansionsKeepOrder(exps) ==
    LET str == to_string_expansions(exps)
    IN  /\ Len(str) = Len(exps)
        /\ \A i \in 1..Len(exps) :
              /\ str[i].key = exps[i].key.id
              /\ Len(str[i].values) = Len(exps[i].values)
              /\ \A j \in 1..Len(exps[i].values) :
                    str[i].values[j] = exps[i].values[j].id

\* C13 as stated: in the returned Config every sink or transform whose input
\* names an expanded transform R has, at the place of that input, the default
\* outputs of all replacements of R in recorded order.
C13_WholeFanOutInOrder ==
    config # <<>> =>
        /\ \A i \in 1..Len(config[1].sinks) :
              WholeFanOuts(builder.sinks[i].inputs, config[1].sinks[i].inputs,
                           config[1].expansions, 1, 0)
        /\ \A i \in 1..Len(config[1].transforms) :
              WholeFanOuts(builder.transforms[i].inputs, config[1].transforms[i].inputs,
                           config[1].expansions, 1, 0)

\* C13 (amended): in the returned Config every sink or transform whose input
\* names an expanded transform R has, at the place of that input, the default
\* outputs of the replacements of R in recorded order, less those an earlier
\* input already put in the list; no resolved input refers to R; and
\* to_string_expansions keeps the key order and the order of every list.
C13_FanOutInOrder ==
    /\ StringExpansionsKeepOrder(expansions)
    /\ config # <<>> =>
          /\ config[1].expansions = expansions
          /\ Len(config[1].sinks) = Len(builder.sinks)
          /\ Len(config[1].transforms) = Len(builder.transforms)
          /\ \A i \in 1..Len(config[1].sinks) :
                NewFanOuts(builder.sinks[i].inputs, config[1].sinks[i].inputs,
                           config[1].expansions, 1, 0)
          /\ \A i \in 1..Len(config[1].transforms) :
                NewFanOuts(builder.transforms[i].inputs, config[1].transforms[i].inputs,
                           config[1].expansions, 1, 0)
          /\ NoUnresolvedReference(config[1])

\* R was expanded into R.0, R.1, R.2 and Q into Q.0, Q.1; sink j, naming Q
\* then R, has the five default outputs in order; sink k, naming R.1 then R,
\* has R.1, R.0, R.2.
C13_Witness ==
    /\ config # <<>>
    /\ [declared EXCEPT !.tests = <<>>] = OverlapFanOutBuilder
    /\ to_string_expansions(config[1].expansions) =
          <<[key |-> <<"Q">>, values |-> << <<"Q", ".", "0">>, <<"Q", ".", "1">> >>],
            [key |-> <<"R">>,
             values |-> << <<"R", ".", "0">>, <<"R", ".", "1">>, <<"R", ".", "2">> >>]>>
    /\ config[1].sinks[2].inputs =
          FanOut(<<"Q">>, config[1].expansions) \o FanOut(<<"R">>, config[1].expansions)
    /\ Len(config[1].sinks[2].inputs) = 5
    /\ config[1].sinks[1].inputs =
          <<OutputId(ComponentKey(<<"R", ".", "1">>), NoPort),
            OutputId(ComponentKey(<<"R", ".", "0">>), NoPort),
            OutputId(ComponentKey(<<"R", ".", "2">>), NoPort)>>

\* ----------------------------------------------------------- cycle claims

\* The components that lie on a directed cycle of the graph's edges.
CyclicComponents ==
    {graph.nodes[i] : i \in {j \in 1..Len(graph.nodes) : OnCycle(graph, graph.nodes[j])}}

\* `errs` holds a cycle error that names components of a cycle, and only those.
HasCycleError(errs) ==
    \E i \in 1..Len(errs) :
        /\ errs[i].phase = "check_for_cycles"
        /\ errs[i].ref # <<>>
        /\ \A j \in 1..Len(errs[i].ref) : ComponentKey(errs[i].ref[j]) \in CyclicComponents

\* C14 as stated: when the resolved edges contain a directed cycle, compile
\* returns Err of a list that contains the cycle error, and no Config.
C14_CycleErrorReturned ==
    (pc = "done" /\ CyclicComponents # {}) =>
        /\ result.tag = "Err"
        /\ config = <<>>
        /\ HasCycleError(result.errors)

\* C14 (amended): when the resolved edges contain a directed cycle, compile
\* returns Err and no Config; check_for_cycles reported the cycle error naming
\* components of the cycle, and the returned list contains it unless the
\* resolution of a test failed, in which case the list is the test errors.
C14_CycleRejected ==
    (pc = "done" /\ CyclicComponents # {}) =>
        /\ result.tag = "Err"
        /\ config = <<>>
        /\ HasCycleError(reported["check_for_cycles"])
        /\ ~Reported("resolve_outputs") => HasCycleError(result.errors)
        /\ Reported("resolve_outputs") => result.errors = reported["resolve_outputs"]

\* Transform A names itself: glob expansion left `A` in place, the graph has
\* the edge A -> A, and compile returned exactly the cycle error naming A.
C14_Witness ==
    /\ pc = "done"
    /\ declared = SelfLoopBuilder
    /\ builder.transforms[1].inputs = << <<"A">>, <<"s">> >>
    /\ CyclicComponents = {ComponentKey(<<"A">>)}
    /\ result = Err(<<Error("check_for_cycles", 1, <<"A">>, << <<"A">> >>)>>)
    /\ config = <<>>

\* ------------------------------------------------- acknowledgement claims

\* The sinks of the Config the graph's edges lead to from component `key`.
SinksReachedInGraph(cfg, key) ==
    {i \in 1..Len(cfg.sinks) : cfg.sinks[i].key \in Reach(graph, {key}, Len(graph.nodes))}

\* The effective acknowledgement flag of the source of id `id` in the Config.
EffectiveAck(cfg, id) ==
    cfg.sources[CHOOSE i \in 1..Len(cfg.sources) : cfg.sources[i].key.id = id].acks

\* C15: in the Config of a successful compile the effective acknowledgement
\* flag of every source is the AND of the capability of all sinks reachable
\* from it in the graph, FALSE without any; S -> T -> {sink1 acks, sink2 no
\* acks} gives S FALSE, and without sink2 gives S TRUE.
C15_AckIsAndOfReachableSinks ==
    result.tag = "Ok" =>
        /\ \A i \in 1..Len(config[1].sources) :
              config[1].sources[i].acks =
                  (/\ SinksReachedInGraph(config[1], config[1].sources[i].key) # {}
                   /\ \A j \in SinksReachedInGraph(config[1], config[1].sources[i].key) :
                         config[1].sinks[j].acks)
        /\ [declared EXCEPT !.tests = <<>>] = AcksBuilder =>
              ~EffectiveAck(config[1], <<"S">>)
        /\ [declared EXCEPT !.tests = <<>>] = AckedBuilder =>
              EffectiveAck(config[1], <<"S">>)
        /\ [declared EXCEPT !.tests = <<>>] = InvalidGlobBuilder =>
              /\ EffectiveAck(config[1], <<"a", "*", "*">>)
              /\ ~EffectiveAck(config[1], <<"u">>)

\* A successful compile of S -> T -> sink1, where S got the flag TRUE through
\* the transform T.
C15_Witness ==
    /\ result.tag = "Ok"
    /\ [declared EXCEPT !.tests = <<>>] = AckedBuilder
    /\ EffectiveAck(config[1], <<"S">>)
    /\ SinksReachedInGraph(config[1], ComponentKey(<<"S">>)) = {1}

C17_PropagationOnlyOnSuccess ==
    Ran("propagate_acknowledgements") =>
        /\ \A p \in {"Graph::new", "typecheck", "check_for_cycles"} :
              Ran(p) /\ ~Reported(p)
        /\ errors = <<>>
        /\ AccumulatedErrors = <<>>
        /\ CyclicComponents = {}
        /\ graph # NoGraph

\* propagate_acknowledgements has run on the graph of the glob_expansion
\* builder, after every earlier phase.
C17_Witness ==
    /\ Ran("propagate_acknowledgements")
    /\ [declared EXCEPT !.tests = <<>>] = GlobTestBuilder
    /\ Len(graph.edges) = 11
    /\ Len(ran) = Len(Phases)

\* ------------------------------------------------- macro expansion claims

\* The declared transforms whose expansion fails, by position.
FailingDeclared == {i \in 1..Len(declared.transforms) :
                       declared.transforms[i].expand.kind = "fail"}

\* C19: when two or more transforms are declared and none has expansion
\* capability, expand_macros returns an empty ExpansionMap and leaves
\* builder.transforms as declared, in declaration order, so that the
\* candidates of glob expansion list transform outputs in declaration order
\* after all source outputs.
C19_DeclarationOrderKept ==
    (/\ pc = "expand_globs"
     /\ Len(declared.transforms) >= 2
     /\ \A i \in 1..Len(declared.transforms) :
           declared.transforms[i].expand.kind = "none") =>
        /\ expansions = <<>>
        /\ builder.transforms = declared.transforms
        /\ Candidates(builder) = DeclaredCandidates(declared)

\* C20: when expand_macros has returned, one error was recorded for each
\* declared transform whose expansion fails, those after the first failure
\* included; it returned Ok, and compile went on, exactly when none failed,
\* and otherwise Err of the recorded errors.
C20_EveryExpansionAttempted ==
    Ran("expand_macros") =>
        /\ Len(reported["expand_macros"]) = Cardinality(FailingDeclared)
        /\ \A i \in FailingDeclared :
              \E j \in 1..Len(reported["expand_macros"]) :
                  reported["expand_macros"][j].id = declared.transforms[i].key.id
        /\ FailingDeclared = {} <=> (pc = "expand_globs" \/ Ran("expand_globs"))
        /\ FailingDeclared # {} =>
              pc = "done" /\ result = Err(reported["expand_macros"])
        /\ Len(builder.transforms)
              = Len(Flatten([i \in 1..Len(declared.transforms) |->
                    IF declared.transforms[i].expand.kind = "parallel"
                    THEN declared.transforms[i].expand.names
                    ELSE IF i \in FailingDeclared THEN <<>> ELSE <<i>>]))

\* Both declared transforms fail: Q, popped first, and then R, which is
\* attempted after that failure; expand_macros returned both errors.
C20_Witness ==
    /\ Ran("expand_macros")
    /\ [declared EXCEPT !.tests = <<>>] = TwoFailingBuilder
    /\ result = Err(<<Error("expand_macros", 1, <<"Q">>, <<>>),
                      Error("expand_macros", 1, <<"R">>, <<>>)>>)

\* ------------------------------------------------ glob expansion, continued

\* Components `after` are components `before` with, at most, other inputs.
SameButInputs(before, after) ==
    /\ Len(after) = Len(before)
    /\ \A i \in 1..Len(before) : [after[i] EXCEPT !.inputs = before[i].inputs] = before[i]

\* C21: the step that runs expand_globs returns nothing from compile and
\* leaves the sources, the keys, order and configs of transforms and sinks,
\* the ExpansionMap and the accumulated error list as they were; only input
\* lists of transforms and sinks may differ.
C21_ExpandGlobsFrame ==
    [][pc = "expand_globs" =>
          /\ builder'.sources = builder.sources
          /\ builder'.tests = builder.tests
          /\ SameButInputs(builder.transforms, builder'.transforms)
          /\ SameButInputs(builder.sinks, builder'.sinks)
          /\ expansions' = expansions
          /\ errors' = errors
          /\ result' = result
          /\ pc' = "check_shape"]_vars

\* expand_globs has rewritten inputs of a builder with a recorded expansion
\* while check_names' errors were on the error list.
C21_Witness ==
    /\ Ran("expand_globs")
    /\ builder.transforms # pre_globs.transforms
    /\ builder.sinks # pre_globs.sinks
    /\ expansions # <<>>
    /\ errors # <<>>
    /\ errors = reported["check_names"]

\* What the raw inputs stand for before any suppression: for each in turn
\* its matching candidates, or the raw input itself when there is none.
RECURSIVE Replacements(_, _, _)
Replacements(raws, id, candidates) ==
    IF raws = <<>> THEN <<>>
    ELSE LET m == MatchingCandidates(Head(raws), id, candidates)
         IN  (IF m = <<>> THEN <<Head(raws)>> ELSE m)
             \o Replacements(Tail(raws), id, candidates)

\* The entries of `seq` at their first occurrence, in order.
FirstOccurrences(seq) ==
    LET first == {i \in 1..Len(seq) : \A j \in 1..(i - 1) : seq[j] # seq[i]}
        nth(n) == CHOOSE i \in first : Cardinality({j \in first : j < i}) = n - 1
    IN  [n \in 1..Cardinality(first) |-> nth(n)]

NoDuplicates(seq) == \A i, j \in 1..Len(seq) : seq[i] = seq[j] => i = j

\* C22: after expand_globs no input list of a transform or sink holds an
\* entry twice, and its entries stand in the order of their first insertion
\* among the replacements of the raw inputs.
C22_NoDuplicateInputs ==
    Ran("expand_globs") =>
        /\ \A i \in 1..Len(builder.transforms) :
              LET all == Replacements(pre_globs.transforms[i].inputs,
                                      builder.transforms[i].key.id,
                                      DeclaredCandidates(pre_globs))
              IN  /\ NoDuplicates(builder.transforms[i].inputs)
                  /\ builder.transforms[i].inputs =
                        [n \in 1..Len(FirstOccurrences(all)) |-> all[FirstOccurrences(all)[n]]]
        /\ \A i \in 1..Len(builder.sinks) :
              LET all == Replacements(pre_globs.sinks[i].inputs, builder.sinks[i].key.id,
                                      DeclaredCandidates(pre_globs))
              IN  /\ NoDuplicates(builder.sinks[i].inputs)
                  /\ builder.sinks[i].inputs =
                        [n \in 1..Len(FirstOccurrences(all)) |-> all[FirstOccurrences(all)[n]]]

\* Sink k names `*` and then `b*`: both match `b` and `b.p`, which stay once,
\* where `*` put them.
C22_Witness ==
    /\ Ran("expand_globs")
    /\ \E i \in 1..Len(builder.sinks) :
          /\ pre_globs.sinks[i].inputs = << <<"*">>, <<"b", "*">> >>
          /\ builder.sinks[i].inputs = << <<"a">>, <<"a", "b">>, <<"b">>, <<"b", ".", "p">> >>

\* ------------------------------------------------------- name check claims

KeysOf(components) == [i \in 1..Len(components) |-> components[i].key]

\* C23: check_names is called at most once, and once it ran it was handed
\* the keys of the transforms, sources and sinks as declared; no key
\* synthesized by an expansion is among them; a run in which it reported
\* errors still runs expand_macros.
C23_NamesCheckedOnceAsDeclared ==
    /\ Len(checked_names) <= 1
    /\ Ran("check_names") <=> Len(checked_names) = 1
    /\ Ran("check_names") =>
          /\ checked_names[1] = KeysOf(declared.transforms) \o KeysOf(declared.sources)
                                \o KeysOf(declared.sinks)
          /\ \A e \in 1..Len(expansions) : \A v \in 1..Len(expansions[e].values) :
                ~Contains(checked_names[1], expansions[e].values[v])
    /\ (Reported("check_names") /\ pc = "done") => Ran("expand_macros")
    /\ (Reported("check_names") /\ pc = "expand_macros") => result = NoResult

\* check_names failed on the keys R, s, k; R was then expanded into R.0,
\* R.1, R.2 and compile ran to its final decision.
C23_Witness ==
    /\ pc = "done"
    /\ Reported("check_names")
    /\ checked_names = << <<ComponentKey(<<"R">>), ComponentKey(<<"s">>),
                            ComponentKey(<<"k">>)>> >>
    /\ Len(builder.transforms) = 3
    /\ Ran("check_for_cycles")

\* The keys of the result set that expanding the declared transforms yields.
FinalizedKeys ==
    UNION {IF declared.transforms[i].expand.kind = "none"
           THEN {declared.transforms[i].key}
           ELSE {KeyJoin(declared.transforms[i].key, declared.transforms[i].expand.names[j]) :
                    j \in 1..Len(declared.transforms[i].expand.names)} :
           i \in 1..Len(declared.transforms)}

\* Inside expand_macros, before its loop has ended.
InMacroLoop == pc = "expand_macros" /\ ~Ran("expand_macros")

\* C24: while expand_macros runs, the work queue is an initial part of the
\* declared transforms; every step of its loop takes exactly the last
\* transform off the queue and puts nothing back; expand_macros always
\* returns, and when it has returned (Ok or Err) the queue was emptied and
\* builder.transforms is the finalized result set.
C24_MacroExpansionTerminates ==
    /\ [](InMacroLoop =>
            builder.transforms = SubSeq(declared.transforms, 1, Len(builder.transforms)))
    /\ [][(InMacroLoop /\ builder.transforms # <<>>) =>
            /\ Len(builder'.transforms) = Len(builder.transforms) - 1
            /\ builder'.transforms =
                  SubSeq(builder.transforms, 1, Len(builder.transforms) - 1)
            /\ pc' = "expand_macros"]_vars
    /\ [](Ran("expand_macros") =>
            /\ pc = "expand_globs" => builder.transforms = expanded_transforms
            /\ ~Reported("expand_macros") =>
                  {builder.transforms[i].key : i \in 1..Len(builder.transforms)}
                      = FinalizedKeys)
    /\ (InMacroLoop ~> Ran("expand_macros"))

\* expand_macros has returned Ok after popping the three declared transforms
\* t, Q and R: builder.transforms holds t, Q.0, Q.1, R.0, R.1 and R.2.
C24_Witness ==
    /\ pc = "expand_globs"
    /\ Len(declared.transforms) = 3
    /\ Len(builder.transforms) = 6
    /\ expansions # <<>>
    /\ builder.transforms = expanded_transforms

\* The entries of `after` that are not raw inputs of `before` kept for want
\* of a match: those glob matching added.
AddedByMatching(before, after, id, candidates) ==
    {after[j] : j \in {n \in 1..Len(after) :
        ~(Contains(before, after[n])
          /\ MatchingCandidates(after[n], id, candidates) = <<>>)}}

\* The strings glob matching may add: the outputs of the sources and of the
\* transforms as they were when expand_globs began, none of them the id of a
\* sink or the key of a transform replaced by its expansion.
MatchableOutputs ==
    {c \in Range(DeclaredCandidates(pre_globs)) :
        /\ \A i \in 1..Len(pre_globs.sinks) : c # pre_globs.sinks[i].key.id
        /\ \A e \in 1..Len(expansions) : c # expansions[e].key.id}

\* C27: after expand_globs every entry that matching added to the inputs of
\* a transform or sink is the rendering of an output of a source or of a
\* post-expansion transform, as listed before any input was rewritten: never
\* the id of a sink, never the key of a transform replaced by its expansion.
C27_OnlyOutputsAdded ==
    Ran("expand_globs") =>
        /\ \A i \in 1..Len(builder.transforms) :
              AddedByMatching(pre_globs.transforms[i].inputs, builder.transforms[i].inputs,
                              builder.transforms[i].key.id, DeclaredCandidates(pre_globs))
                  \subseteq MatchableOutputs
        /\ \A i \in 1..Len(builder.sinks) :
              AddedByMatching(pre_globs.sinks[i].inputs, builder.sinks[i].inputs,
                              builder.sinks[i].key.id, DeclaredCandidates(pre_globs))
                  \subseteq MatchableOutputs

\* r was replaced by r.0 and r.1; sink k names `*` and gets a, b, r.0, r.1:
\* neither r nor k; transform r.0 names `r*` and gets r.1 only.
C27_Witness ==
    /\ Ran("expand_globs")
    /\ expansions # <<>>
    /\ builder.sinks[1].key.id = <<"k">>
    /\ pre_globs.sinks[1].inputs = << <<"*">> >>
    /\ builder.sinks[1].inputs =
          << <<"a">>, <<"b">>, <<"r", ".", "0">>, <<"r", ".", "1">> >>
    /\ \E i \in 1..Len(builder.transforms) :
          /\ builder.transforms[i].key.id = <<"r", ".", "0">>
          /\ pre_globs.transforms[i].inputs = << <<"r", "*">> >>
          /\ builder.transforms[i].inputs = << <<"r", ".", "1">> >>

\* ------------------------------------------------------------ ExternalEnv

MaxDepth == 2

MaxPaths == 2

Segments == {"a", "b"}

RECURSIVE PathsUpTo(_)
PathsUpTo(n) ==
    IF n = 0 THEN {<<>>}
    ELSE PathsUpTo(n - 1)
         \cup {Append(p, x) : p \in {q \in PathsUpTo(n - 1) : Len(q) = n - 1},
                               x \in Segments}

\* The paths a call may ask about: field paths without coalescing.
Paths == PathsUpTo(MaxDepth)

\* The paths registered as read-only: the root, a field and a field of it.
RegistrablePaths == {p \in PathsUpTo(2) : p = SubSeq(<<"a", "b">>, 1, Len(p))}

PathRoot == {"Event", "Metadata"}

\* LookupBuf::root()
LookupRoot == <<>>

\* LookupBuf::starts_with: the segments of `prefix` begin those of `path`.
StartsWith(path, prefix) ==
    Len(prefix) <= Len(path) /\ SubSeq(path, 1, Len(prefix)) = prefix

ReadOnlyPath(path, recursive, root) ==
    [path |-> path, recursive |-> recursive, root |-> root]

\* An is_read_only_path that treats every registered path as recursive.
RECURSIVE IsReadOnlyAllRecursive(_, _, _, _)
IsReadOnlyAllRecursive(paths, path, root, k) ==
    IF k > Len(paths) THEN FALSE
    ELSE IF paths[k].root # root THEN IsReadOnlyAllRecursive(paths, path, root, k + 1)
    ELSE IF StartsWith(paths[k].path, path) THEN TRUE
    ELSE IF StartsWith(path, paths[k].path) THEN TRUE
    ELSE IsReadOnlyAllRecursive(paths, path, root, k + 1)

\* The loop of is_read_only_path from the k-th registered path on.
RECURSIVE IsReadOnlyFrom(_, _, _, _)
IsReadOnlyFrom(paths, path, root, k) ==
    IF k > Len(paths) THEN FALSE
    ELSE IF paths[k].root # root THEN IsReadOnlyFrom(paths, path, root, k + 1)
    ELSE IF StartsWith(paths[k].path, path) THEN TRUE
    ELSE IF paths[k].recursive
         THEN IF StartsWith(path, paths[k].path) THEN TRUE
              ELSE IsReadOnlyFrom(paths, path, root, k + 1)
         ELSE IF path = paths[k].path THEN TRUE
              ELSE IsReadOnlyFrom(paths, path, root, k + 1)

is_read_only_path(paths, path, root) == IsReadOnlyFrom(paths, path, root, 1)

\* add_read_only_path(path, recursive, root); the assertion holds, no path
\* of the model having a coalesced segment.
AddReadOnlyPath ==
    /\ Len(read_only_paths) < MaxPaths
    /\ \E path \in RegistrablePaths, recursive \in BOOLEAN, root \in PathRoot :
          read_only_paths' = Append(read_only_paths, ReadOnlyPath(path, recursive, root))
    /\ UNCHANGED <<compile_vars, local_vars, tutorial_vars, redis_vars, answer>>

\* read_only(): the root of the event and of the metadata, both recursive.
ReadOnly ==
    /\ Len(read_only_paths) + 2 <= MaxPaths
    /\ read_only_paths' = read_only_paths
                            \o <<ReadOnlyPath(LookupRoot, TRUE, "Event"),
                                 ReadOnlyPath(LookupRoot, TRUE, "Metadata")>>
    /\ UNCHANGED <<compile_vars, local_vars, tutorial_vars, redis_vars, answer>>

\* is_read_only_event_path / is_read_only_metadata_path / is_read_only_path
IsReadOnlyPath ==
    /\ \E path \in Paths, root \in PathRoot :
          answer' = [paths |-> read_only_paths, path |-> path, root |-> root,
                     value |-> is_read_only_path(read_only_paths, path, root)]
    /\ UNCHANGED <<compile_vars, local_vars, tutorial_vars, redis_vars, read_only_paths>>

EnvNext ==
    \/ AddReadOnlyPath
    \/ ReadOnly
    \/ IsReadOnlyPath

EnvInit == InitOf({EmptyBuilder}) /\ OthersStart

EnvSpec == EnvInit /\ [][EnvNext]_vars

\* C25: is_read_only_path(p, root) returned true exactly when some
\* registered path r of the same root has p as a prefix (p is a parent of r
\* or r itself), or equals p, or is recursive and a prefix of p; paths of the
\* other root and strict descendants of a non-recursive path do not count.
C25_ReadOnlyExactly ==
    answer # NoAnswer =>
        (answer.value <=>
            \E k \in 1..Len(answer.paths) :
                LET r == answer.paths[k]
                IN  /\ r.root = answer.root
                    /\ \/ StartsWith(r.path, answer.path)
                       \/ r.path = answer.path
                       \/ r.recursive /\ StartsWith(answer.path, r.path))

\* With `a` read-only for the event, not recursive, and `a.b` read-only for
\* the metadata, recursive, the event path `a.b` was found not read-only.
C25_Witness ==
    /\ answer.paths = <<ReadOnlyPath(<<"a">>, FALSE, "Event"),
                        ReadOnlyPath(<<"a", "b">>, TRUE, "Metadata")>>
    /\ answer.path = <<"a", "b">>
    /\ answer.root = "Event"
    /\ ~answer.value

\* ---------------------------------------------------------------- LocalEnv

Idents == {"x", "y"}

\* Details, reduced to the kinds a variable may have.
AllDetails == {{"bytes"}, {"integer"}, {"bytes", "integer"}}

\* The LocalEnvs over Idents: any subset bound, each to any Details.
LocalEnvs == UNION {[bound -> AllDetails] : bound \in SUBSET Idents}

\* Details::merge: the union of the two options.
DetailsMerge(self_details, other_details) == self_details \cup other_details

\* An apply_child_scope that inserts the child's bindings.
RECURSIVE ApplyInserting(_, _, _)
ApplyInserting(self, child, todo) ==
    IF todo = {} THEN self
    ELSE LET ident == CHOOSE i \in todo : TRUE
         IN  ApplyInserting(
                 [i \in DOMAIN self \cup {ident} |->
                     IF i = ident THEN child[ident] ELSE self[i]],
                 child, todo \ {ident})

\* The loop of apply_child_scope over the bindings of `child` not yet visited.
RECURSIVE ApplyFrom(_, _, _)
ApplyFrom(self, child, todo) ==
    IF todo = {} THEN self
    ELSE LET ident == CHOOSE i \in todo : TRUE
         IN  ApplyFrom(
                 IF ident \in DOMAIN self
                 THEN [self EXCEPT ![ident] = child[ident]]
                 ELSE self,
                 child, todo \ {ident})

apply_child_scope(self, child) == ApplyFrom(self, child, DOMAIN child)

\* The loop of merge over the bindings of `other` not yet visited.
RECURSIVE MergeFrom(_, _, _)
MergeFrom(self, other, todo) ==
    IF todo = {} THEN self
    ELSE LET ident == CHOOSE i \in todo : TRUE
         IN  MergeFrom(
                 IF ident \in DOMAIN self
                 THEN [self EXCEPT ![ident] = DetailsMerge(self[ident], other[ident])]
                 ELSE self,
                 other, todo \ {ident})

merge(self, other) == MergeFrom(self, other, DOMAIN other)

ApplyChildScope ==
    /\ local_out = NoCall
    /\ local_out' = [method |-> "apply_child_scope",
                     env |-> apply_child_scope(local_self, local_other)]
    /\ UNCHANGED <<compile_vars, env_vars, tutorial_vars, redis_vars, local_self,
                   local_other>>

Merge ==
    /\ local_out = NoCall
    /\ local_out' = [method |-> "merge", env |-> merge(local_self, local_other)]
    /\ UNCHANGED <<compile_vars, env_vars, tutorial_vars, redis_vars, local_self,
                   local_other>>

LocalNext ==
    \/ ApplyChildScope
    \/ Merge

LocalInit ==
    /\ InitOf({EmptyBuilder})
    /\ EnvStart
    /\ LocalStart(LocalEnvs)
    /\ TutorialStart
    /\ RedisStart

LocalSpec == LocalInit /\ [][LocalNext]_vars

\* C26: the LocalEnv apply_child_scope or merge returned binds exactly the
\* identifiers bound in self; apply_child_scope gave those also bound in the
\* child the child's details and left the others as they were; merge left
\* those not bound in other as they were.
C26_ParentBindingsKept ==
    local_out # NoCall =>
        /\ DOMAIN local_out.env = DOMAIN local_self
        /\ \A ident \in DOMAIN local_self :
              /\ ident \notin DOMAIN local_other =>
                    local_out.env[ident] = local_self[ident]
              /\ (local_out.method = "apply_child_scope"
                     /\ ident \in DOMAIN local_other) =>
                    local_out.env[ident] = local_other[ident]

\* self binds x, the child binds x and y with other details: the result
\* binds only x, with the child's details.
C26_Witness ==
    /\ local_out.method = "apply_child_scope"
    /\ DOMAIN local_self = {"x"}
    /\ DOMAIN local_other = {"x", "y"}
    /\ local_self["x"] = {"bytes"}
    /\ local_other["x"] = {"integer"}
    /\ DOMAIN local_out.env = {"x"}
    /\ local_out.env["x"] = {"integer"}

\* ----------------------------------------------------------------- tutorial
\* lib/vrl/cli/src/tutorial.rs: the tutorial's command loop.  A readline call
\* returns a line or an error; a program is any line that is no command, and
\* running it fails, leaves the event different from the correct answer, or
\* makes the event equal to it.

NumTutorials == 7

Programs == {"cheat", ".foo = 1"}

Commands == {"exit", "quit", "start", "next", "prev", "docs", "help", ""}

ReadlineErrors == {"Interrupted", "Eof", "Io"}

ReadOk(line) == [tag |-> "Ok", value |-> line]

ReadErr(error) == [tag |-> "Err", value |-> error]

Readlines ==
    {ReadOk(line) : line \in Commands \cup Programs}
        \cup {ReadErr(error) : error \in ReadlineErrors}

CommandResults == {"Err", "Ok", "Correct"}

IsExit(read) == read \in {ReadOk("exit"), ReadOk("quit")}

NeverLastTutorial(i) == FALSE

\* (index + 1) == tutorials.len()
LastTutorial(i) == (i + 1) = NumTutorials

\* index.saturating_add(1); a usize does not reach its maximum here.
saturating_add(i) == i + 1

\* index.saturating_sub(1)
saturating_sub(i) == IF i = 0 THEN 0 ELSE i - 1

\* `tutorials[i]`, then the wait at the prompt `then`: an index out of the
\* vector's bounds panics.
Tutorials(i, then) ==
    /\ accessed' = <<i>>
    /\ prompt' = IF i < NumTutorials THEN then ELSE "panicked"

\* break 'outer, or return from the intro: Ok(()).
TutorialReturns ==
    /\ prompt' = "returned"
    /\ tutorial_result' = "Ok"

TutorialFrame == UNCHANGED <<compile_vars, env_vars, local_vars, redis_vars>>

\* The 'intro loop: one readline and its match.
Intro ==
    /\ prompt = "intro"
    /\ \E read \in Readlines :
          /\ readline' = read
          /\ IF IsExit(read)
                THEN TutorialReturns /\ UNCHANGED accessed
                ELSE IF read = ReadOk("start")
                        THEN Tutorials(0, "main") /\ UNCHANGED tutorial_result
                        ELSE UNCHANGED <<prompt, accessed, tutorial_result>>
    /\ UNCHANGED <<index, command_result>>
    /\ TutorialFrame

\* 'outer: exit or quit.
MainExit ==
    /\ prompt = "main"
    /\ \E read \in {ReadOk("exit"), ReadOk("quit")} : readline' = read
    /\ TutorialReturns
    /\ UNCHANGED <<index, accessed, command_result>>
    /\ TutorialFrame

\* 'outer: the empty line or help.
MainHelp ==
    /\ prompt = "main"
    /\ \E read \in {ReadOk(""), ReadOk("help")} : readline' = read
    /\ UNCHANGED <<prompt, index, accessed, command_result, tutorial_result>>
    /\ TutorialFrame

\* 'outer: next.
MainNext ==
    /\ prompt = "main"
    /\ readline' = ReadOk("next")
    /\ IF LastTutorial(index)
          THEN TutorialReturns /\ UNCHANGED <<index, accessed>>
          ELSE /\ index' = saturating_add(index)
               /\ Tutorials(index', "main")
               /\ UNCHANGED tutorial_result
    /\ UNCHANGED command_result
    /\ TutorialFrame

\* 'outer: prev.
MainPrev ==
    /\ prompt = "main"
    /\ readline' = ReadOk("prev")
    /\ index' = saturating_sub(index)
    /\ Tutorials(index', "main")
    /\ UNCHANGED <<command_result, tutorial_result>>
    /\ TutorialFrame

\* 'outer: docs.
MainDocs ==
    /\ prompt = "main"
    /\ readline' = ReadOk("docs")
    /\ Tutorials(index, "main")
    /\ UNCHANGED <<index, command_result, tutorial_result>>
    /\ TutorialFrame

\* 'outer: a program, up to the wait for `next` a correct answer leads to.
MainCommand ==
    /\ prompt = "main"
    /\ \E command \in Programs, ran_to \in CommandResults :
          /\ readline' = ReadOk(command)
          /\ command_result' = ran_to
          /\ IF ran_to = "Correct"
                THEN IF LastTutorial(index)
                        THEN /\ accessed' = <<index>>
                             /\ IF index < NumTutorials
                                   THEN TutorialReturns
                                   ELSE /\ prompt' = "panicked"
                                        /\ UNCHANGED tutorial_result
                        ELSE Tutorials(index, "next") /\ UNCHANGED tutorial_result
                ELSE Tutorials(index, "main") /\ UNCHANGED tutorial_result
    /\ UNCHANGED index
    /\ TutorialFrame

\* 'outer: readline failed.
MainReadError ==
    /\ prompt = "main"
    /\ \E error \in ReadlineErrors : readline' = ReadErr(error)
    /\ TutorialReturns
    /\ UNCHANGED <<index, accessed, command_result>>
    /\ TutorialFrame

\* The 'next loop: one readline and its match, and on `next` the rest of
\* the arm of the program that was correct.
AwaitNext ==
    /\ prompt = "next"
    /\ \E read \in Readlines :
          /\ readline' = read
          /\ IF IsExit(read)
                THEN TutorialReturns /\ UNCHANGED <<index, accessed>>
                ELSE IF read = ReadOk("next")
                        THEN /\ index' = saturating_add(index)
                             /\ Tutorials(index', "main")
                             /\ UNCHANGED tutorial_result
                        ELSE UNCHANGED <<prompt, index, accessed, tutorial_result>>
    /\ UNCHANGED command_result
    /\ TutorialFrame

TutorialNext ==
    \/ Intro
    \/ MainExit
    \/ MainHelp
    \/ MainNext
    \/ MainPrev
    \/ MainDocs
    \/ MainCommand
    \/ MainReadError
    \/ AwaitNext

TutorialInit == InitOf({EmptyBuilder}) /\ OthersStart

TutorialSpec == TutorialInit /\ [][TutorialNext]_vars

\* tutorial() keeps running while it has a step to take.
TutorialFairSpec == TutorialSpec /\ WF_vars(TutorialNext)

\* C28: every index used in `tutorials[index]` is within 0 .. len - 1 and
\* no access panics; `prev` at index 0 leaves the index at 0; `next` or a
\* correct answer at the last tutorial returns and leaves the index as it was.
C28_IndexInBounds ==
    /\ [](/\ prompt # "panicked"
          /\ index \in 0 .. (NumTutorials - 1)
          /\ \A k \in 1 .. Len(accessed) : accessed[k] \in 0 .. (NumTutorials - 1))
    /\ [][(prompt = "main" /\ index = 0 /\ readline' = ReadOk("prev"))
             => (index' = 0 /\ accessed' = <<0>>)]_vars
    /\ [][(/\ prompt = "main"
           /\ index = NumTutorials - 1
           /\ \/ readline' = ReadOk("next")
              \/ (readline'.value \in Programs /\ command_result' = "Correct"))
             => (index' = index /\ prompt' = "returned" /\ tutorial_result' = "Ok")]_vars

\* `next` at the last of the seven tutorials ended the session.
C28_Witness ==
    /\ prompt = "returned"
    /\ readline = ReadOk("next")
    /\ index = NumTutorials - 1
    /\ accessed = <<NumTutorials - 1>>

\* C29: once readline has reported Interrupted or Eof, at any prompt,
\* tutorial() eventually returns Ok(()).
C29_InterruptReturns ==
    (readline \in {ReadErr("Interrupted"), ReadErr("Eof")}) ~> (tutorial_result = "Ok")

\* ------------------------------------------------------ redis channel source
\* src/sources/redis/channel.rs: subscribe() and the future it returns.  The
\* redis client, the shutdown signal and handle_line are the environment:
\* each call of theirs returns any of its outcomes.

MaxMsgs == 4

\* A message whose payload is a UTF-8 string, and one whose payload is not.
Payloads == {"text", "binary"}

\* msg.get_payload::<String>()
get_payload(msg) == IF msg = "text" THEN "Ok" ELSE "Err"

ConnectionFailureIgnored(r) == "subscribe"

\* client.get_async_connection().await.context(ConnectionSnafu {})?
AfterConnect(r) == IF r = "Ok" THEN "subscribe" ELSE "failed"

\* pubsub_conn.subscribe(&key).await.context(SubscribeSnafu {})?
AfterSubscribe(r) == IF r = "Ok" THEN "receiving" ELSE "failed"

\* The while loop is left and the future resolves: Ok(()).
FutureResolves(why) ==
    /\ stopped' = why
    /\ redis_pc' = "done"
    /\ future_result' = "Ok"

RedisFrame == UNCHANGED <<compile_vars, env_vars, local_vars, tutorial_vars>>

GetConnection ==
    /\ redis_pc = "connect"
    /\ \E r \in {"Ok", "Err"} :
          /\ connected' = r
          /\ redis_pc' = AfterConnect(r)
          /\ subscribe_result' =
                IF redis_pc' = "failed" THEN "Err(Connection)" ELSE subscribe_result
    /\ UNCHANGED <<subscribed, delivered, effects, stopped, future_result>>
    /\ RedisFrame

\* The subscription, and on success the return of the source, whose future
\* then waits for the first message.
SubscribeChannel ==
    /\ redis_pc = "subscribe"
    /\ \E r \in {"Ok", "Err"} :
          /\ subscribed' = r
          /\ redis_pc' = AfterSubscribe(r)
          /\ subscribe_result' =
                IF redis_pc' = "failed" THEN "Err(Subscribe)" ELSE "Ok(Source)"
    /\ UNCHANGED <<connected, delivered, effects, stopped, future_result>>
    /\ RedisFrame

\* pubsub_stream.next() yields a message: one turn of the while loop.
OnMessage ==
    /\ redis_pc = "receiving"
    /\ Len(delivered) < MaxMsgs
    /\ \E msg \in Payloads, handled \in {"Ok", "Err"} :
          /\ delivered' = Append(delivered, msg)
          /\ IF get_payload(msg) = "Ok"
                THEN /\ effects' = Append(effects, "handle_line")
                     /\ IF handled = "Err"
                           THEN FutureResolves("handle_line")
                           ELSE UNCHANGED <<redis_pc, stopped, future_result>>
                ELSE /\ effects' = Append(effects, "emit")
                     /\ UNCHANGED <<redis_pc, stopped, future_result>>
    /\ UNCHANGED <<connected, subscribed, subscribe_result>>
    /\ RedisFrame

\* take_until(shutdown): the shutdown signal fired, next() yields None.
Shutdown ==
    /\ redis_pc = "receiving"
    /\ FutureResolves("shutdown")
    /\ UNCHANGED <<connected, subscribed, subscribe_result, delivered, effects>>
    /\ RedisFrame

\* The pub/sub stream ended, next() yields None.
StreamEnd ==
    /\ redis_pc = "receiving"
    /\ FutureResolves("stream_end")
    /\ UNCHANGED <<connected, subscribed, subscribe_result, delivered, effects>>
    /\ RedisFrame

RedisNext ==
    \/ GetConnection
    \/ SubscribeChannel
    \/ OnMessage
    \/ Shutdown
    \/ StreamEnd

RedisInit == InitOf({EmptyBuilder}) /\ OthersStart

RedisSpec == RedisInit /\ [][RedisNext]_vars

\* What the loop does with a message, by its payload.
EffectOf(msg) == IF msg = "text" THEN "handle_line" ELSE "emit"

\* C30: a message is processed only once the connection and the subscription
\* both succeeded, and a failure of either makes subscribe() return Err, with
\* no source and nothing processed; the loop is left only on shutdown, on the
\* end of the stream or on an Err of handle_line; a message whose payload is
\* no String emits the error and the loop goes on; when the future resolves,
\* it resolves to Ok(()).
C30_ChannelSource ==
    /\ [](/\ effects # <<>> =>
                /\ connected = "Ok"
                /\ subscribed = "Ok"
                /\ subscribe_result = "Ok(Source)"
          /\ connected = "Err" =>
                /\ subscribe_result = "Err(Connection)"
                /\ subscribed = "none"
          /\ subscribed = "Err" => subscribe_result = "Err(Subscribe)"
          /\ subscribe_result \in {"Err(Connection)", "Err(Subscribe)"} =>
                /\ delivered = <<>>
                /\ effects = <<>>
                /\ future_result = "none"
          /\ Len(effects) = Len(delivered)
          /\ \A k \in 1 .. Len(delivered) : effects[k] = EffectOf(delivered[k])
          /\ stopped = "handle_line" => effects[Len(effects)] = "handle_line"
          /\ future_result = IF stopped = "none" THEN "none" ELSE "Ok")
    /\ [][(redis_pc = "receiving" /\ redis_pc' # "receiving")
             => stopped' \in {"shutdown", "stream_end", "handle_line"}]_vars
    /\ [][(redis_pc = "receiving" /\ delivered' = Append(delivered, "binary"))
             => (redis_pc' = "receiving" /\ effects' = Append(effects, "emit"))]_vars

\* A message with an unreadable payload, then a line, then the shutdown.
C30_Witness ==
    /\ delivered = <<"binary", "text">>
    /\ effects = <<"emit", "handle_line">>
    /\ stopped = "shutdown"
    /\ subscribe_result = "Ok(Source)"
    /\ future_result = "Ok"

====
